---- MODULE Spec2Model ----
(***************************************************************************)
(* A model of the media-enrichment pipeline of AnkiTect:                   *)
(*   - the Rate Signal Tracker  (AnkiDeckBuilder.adaptive_stats,           *)
(*     _adjust_concurrency, _get_backoff_delay),                           *)
(*   - the Cache Ledger         (CacheManager),                            *)
(*   - the Row Processor and Pipeline Coordinator                          *)
(*     (AnkiDeckBuilder.process_row, AnkiDeckBuilder.build).               *)
(* Five specifications share the operators that model the handlers:        *)
(*   SpecTracker  the tracker driven by arbitrary outcome signals,         *)
(*   SpecCache    one CacheManager driven by arbitrary calls and by        *)
(*                external changes of the media directory,                 *)
(*   SpecAsync    one CacheManager called by concurrent coroutines, its    *)
(*                async variants included,                                 *)
(*   SpecEmit     the events one build hands to its progress callback,    *)
(*                by vocabulary size,                                      *)
(*   Spec         one run of build() over a small vocabulary.              *)
(***************************************************************************)
EXTENDS Integers, Sequences, FiniteSets, Bags, TLC

VARIABLES
    \* ---- Rate Signal Tracker (builder.py:170-176) ----
    adaptive_stats,     \* the dict self.adaptive_stats
    lastCall,           \* arguments of the most recent _adjust_concurrency call
    throttles,          \* number of calls made with status_code = 429
    calls,              \* number of _adjust_concurrency calls made
    emitting,           \* the thread is inside self.progress_callback, called
                        \* by _emit within _adjust_concurrency, under
                        \* _concurrency_lock (builder.py:227 and 268-274)
    \* ---- Cache Ledger (cache.py:33-40) and the disk it reads ----
    cache,              \* self.cache: filename -> timestamp
    _pending_writes,    \* self._pending_writes: the list of filenames, as a bag
                        \* (the code reads only its length: cache.py:114,
                        \* 136, 156, 173)
    cache_file,         \* content of build_cache.json on disk
    media,              \* Config.MEDIA_DIR: existing filename -> size in bytes
    now,                \* the clock read by datetime.now()
    lastOp,             \* the most recent CacheManager call: <<name, filename>>
    ret,                \* value returned by the most recent is_cached call
    executor,           \* the _save_internal call that an async variant runs
                        \* in the default executor (cache.py:84-85, 150-151)
    \* ---- one run of AnkiDeckBuilder.build (builder.py:592-661) ----
    rows,               \* the DataFrame df: the vocabulary rows, in order
    has_api_key,        \* bool(Config.POLLINATIONS_API_KEY)
    bpc,                \* where build() stands
    batch_start,        \* the loop variable of build()
    interrupted,        \* the run was interrupted (the build task cancelled)
    rpc,                \* where each row's process_row task stands
    local,              \* the local variables of each process_row task
    outcome,            \* how each row's process_row ended
    raised,             \* rows whose processing raised an exception
    semaphore,          \* self.semaphore: the free slots (its _value)
    session,            \* ImageFetcher._session (st), with the sessions
                        \* constructed so far (made) and those of them not
                        \* closed (live)
    confetti,           \* the image fetch made by _download_confetti
    stats,              \* self.stats._counters
    failed_words,       \* self.stats._failed_words
    deck,               \* self.deck.notes
    media_files,        \* self.media_files
    _total_items,       \* self._total_items
    emitted,            \* the log and progress events handed to _emit so far
    _processed_items    \* self._processed_items

trackerVars == <<adaptive_stats, lastCall, throttles, calls, emitting>>
cacheVars   == <<cache, _pending_writes, cache_file, media, now, lastOp, ret,
                 executor>>
buildVars   == <<rows, has_api_key, bpc, batch_start, interrupted, rpc, local,
                 outcome, raised, semaphore, session, confetti, stats,
                 failed_words, deck, media_files, _total_items, emitted, _processed_items>>
buildVarsButLocal ==
    <<rows, has_api_key, bpc, batch_start, interrupted, rpc, outcome, raised,
      session, confetti, stats, failed_words, deck, media_files,
      _total_items, emitted, _processed_items>>
vars        == <<trackerVars, cacheVars, buildVars>>

Min(a, b) == IF a <= b THEN a ELSE b
Max(a, b) == IF a >= b THEN a ELSE b

RECURSIVE Pow2(_)
Pow2(n) == IF n = 0 THEN 1 ELSE 2 * Pow2(n - 1)

(***************************************************************************)
(*                         RATE SIGNAL TRACKER                             *)
(***************************************************************************)

\* Bound of the tracker specification: number of recorded outcome signals.
MaxSignals == 7

\* status_code: Optional[int].  None is modelled by 0: in _adjust_concurrency
\* both are unequal to 429 and both are falsy in "status_code and ...".
NoStatus == 0
StatusCodes == {NoStatus, 200, 204, 399, 400, 401, 404, 429, 500}
\* is_success: Optional[bool]
SuccessFlags == {"True", "False", "None"}

\* builder.py:171-176
InitialAdaptiveStats ==
    [consecutive_success     |-> 0,
     consecutive_failures    |-> 0,
     last_status_429         |-> FALSE,
     concurrency_adjustments |-> 0]

\* Mutant: a throttle restarts the failure streak at 1 instead of extending it.
AdjustConcurrencyRestartsStreak(s, status_code, is_success) ==
    IF status_code = 429
    THEN [s EXCEPT !.last_status_429 = TRUE,
                   !.consecutive_success = 0,
                   !.consecutive_failures = 1,
                   !.concurrency_adjustments = @ + 1]
    ELSE IF status_code # NoStatus /\ status_code < 400
    THEN [s EXCEPT !.consecutive_failures = 0,
                   !.consecutive_success = @ + 1]
    ELSE IF is_success = "False"
    THEN [s EXCEPT !.consecutive_success = 0,
                   !.consecutive_failures = @ + 1]
    ELSE s

\* Mutant: a success only decrements the failure streak.
AdjustConcurrencySuccessDecrements(s, status_code, is_success) ==
    IF status_code = 429
    THEN [s EXCEPT !.last_status_429 = TRUE,
                   !.consecutive_success = 0,
                   !.consecutive_failures = @ + 1,
                   !.concurrency_adjustments = @ + 1]
    ELSE IF status_code # NoStatus /\ status_code < 400
    THEN [s EXCEPT !.consecutive_failures = Max(0, @ - 1),
                   !.consecutive_success = @ + 1]
    ELSE IF is_success = "False"
    THEN [s EXCEPT !.consecutive_success = 0,
                   !.consecutive_failures = @ + 1]
    ELSE s

\* Mutant: a plain failure is counted as an adjustment too.
AdjustConcurrencyCountsFailures(s, status_code, is_success) ==
    IF status_code = 429
    THEN [s EXCEPT !.last_status_429 = TRUE,
                   !.consecutive_success = 0,
                   !.consecutive_failures = @ + 1,
                   !.concurrency_adjustments = @ + 1]
    ELSE IF status_code # NoStatus /\ status_code < 400
    THEN [s EXCEPT !.consecutive_failures = 0,
                   !.consecutive_success = @ + 1]
    ELSE IF is_success = "False"
    THEN [s EXCEPT !.consecutive_success = 0,
                   !.consecutive_failures = @ + 1,
                   !.concurrency_adjustments = @ + 1]
    ELSE s

\* Mutant: a plain failure leaves the success streak as it is.
AdjustConcurrencyKeepsSuccessStreak(s, status_code, is_success) ==
    IF status_code = 429
    THEN [s EXCEPT !.last_status_429 = TRUE,
                   !.consecutive_success = 0,
                   !.consecutive_failures = @ + 1,
                   !.concurrency_adjustments = @ + 1]
    ELSE IF status_code # NoStatus /\ status_code < 400
    THEN [s EXCEPT !.consecutive_failures = 0,
                   !.consecutive_success = @ + 1]
    ELSE IF is_success = "False"
    THEN [s EXCEPT !.consecutive_failures = @ + 1]
    ELSE s

\* builder.py:261-282: the new value of self.adaptive_stats.
_adjust_concurrency(s, status_code, is_success) ==
    IF status_code = 429
    THEN [s EXCEPT !.last_status_429 = TRUE,
                   !.consecutive_success = 0,
                   !.consecutive_failures = @ + 1,
                   !.concurrency_adjustments = @ + 1]
    ELSE IF status_code # NoStatus /\ status_code < 400
    THEN [s EXCEPT !.consecutive_failures = 0,
                   !.consecutive_success = @ + 1]
    ELSE IF is_success = "False"
    THEN [s EXCEPT !.consecutive_success = 0,
                   !.consecutive_failures = @ + 1]
    ELSE s

\* builder.py:284-291.  The source returns seconds as a float; the model
\* returns milliseconds (0.5 s = 500), so that every value is an integer.
_get_backoff_delay(s) ==
    LET failures == s.consecutive_failures
    IN  IF failures = 0
        THEN 0
        ELSE Min(10000, 500 * Pow2(Min(failures, 4)))

\* builder.py:213-227 and 274: _emit calls self.progress_callback(payload)
\* and goes on when the callback has returned; _adjust_concurrency emits a
\* log event in its 429 branch.
EmitsLog(status_code) == status_code = 429

\* One call of the shared callback, as the fetchers make it, up to the call
\* of the progress callback (if any).  A caller gets in only while no other
\* is inside: the callers share one thread and _concurrency_lock.
RecordOutcome(status_code, is_success) ==
    /\ calls < MaxSignals
    /\ ~emitting
    /\ emitting' = EmitsLog(status_code)
    /\ adaptive_stats' = _adjust_concurrency(adaptive_stats, status_code, is_success)
    /\ lastCall' = <<status_code, is_success>>
    /\ throttles' = throttles + (IF status_code = 429 THEN 1 ELSE 0)
    /\ calls' = calls + 1

TrackerInit ==
    /\ adaptive_stats = InitialAdaptiveStats
    /\ lastCall = <<NoStatus, "None">>
    /\ throttles = 0
    /\ calls = 0
    /\ emitting = FALSE

\* builder.py:227: the progress callback returns, and with it _emit and
\* _adjust_concurrency; the lock is released.
EmitReturns ==
    /\ emitting
    /\ emitting' = FALSE
    /\ UNCHANGED <<adaptive_stats, lastCall, throttles, calls>>

(***************************************************************************)
(*                             CACHE LEDGER                                *)
(***************************************************************************)

EmptyMap == [f \in {} |-> 0]

\* Bound of the ledger specification: the last reading of the clock.
MaxClock == 2

\* cache.py:40
_batch_size == 10
\* cache.py:87, the default of is_cached's min_size
DefaultMinSize == 500

\* Filenames the ledger is asked about, and the sizes a media file may have.
Files == {"img", "word"}
Sizes == {500, 501}
\* Arguments of mark_cached: a single filename or a list of filenames.
FileLists == {<<>>, <<"img", "word">>, <<"word", "word">>}

Remove(m, k) == [x \in DOMAIN m \ {k} |-> m[x]]
Put(m, k, v) == [x \in DOMAIN m \cup {k} |-> IF x = k THEN v ELSE m[x]]
MapsTo(D, R) == UNION {[S -> R] : S \in SUBSET D}

\* The CacheManager object together with its ledger file.
CM == [cache |-> cache, _pending_writes |-> _pending_writes, cache_file |-> cache_file]

\* cache.py:48-56: the dict read from the ledger file; {} when the file is
\* missing or cannot be parsed.
_load_cache(file) ==
    IF file.kind = "json" THEN file.data ELSE EmptyMap

\* cache.py:23-40: a CacheManager constructed over the ledger file.
NewCacheManager(file) ==
    [cache |-> _load_cache(file), _pending_writes |-> EmptyBag, cache_file |-> file]

\* cache.py:63-78: the whole dict is written to a temporary file, which then
\* replaces the ledger file.  The disk is taken to be writable.
_save_internal(cm) ==
    [cm EXCEPT !.cache_file = [kind |-> "json", data |-> cm.cache]]

\* Mutant: the buffer is written only once it holds more than _batch_size
\* entries.
SaveIfOverBatch(cm) ==
    IF BagCardinality(cm._pending_writes) > _batch_size
    THEN [_save_internal(cm) EXCEPT !._pending_writes = EmptyBag]
    ELSE cm

\* cache.py:114-116 and 136-138: write and empty the buffer once it holds
\* _batch_size entries.
SaveIfBatchFull(cm) ==
    IF BagCardinality(cm._pending_writes) >= _batch_size
    THEN [_save_internal(cm) EXCEPT !._pending_writes = EmptyBag]
    ELSE cm

\* cache.py:104-109
FileValid(md, filename, min_size) ==
    filename \in DOMAIN md /\ md[filename] > min_size

\* Mutant: a file of exactly min_size bytes is accepted.
IsCachedAcceptsMinSize(cm, md, filename, min_size) ==
    IF filename \notin DOMAIN cm.cache
    THEN [ret |-> FALSE, cm |-> cm]
    ELSE IF filename \in DOMAIN md /\ md[filename] >= min_size
    THEN [ret |-> TRUE, cm |-> cm]
    ELSE [ret |-> FALSE,
          cm  |-> SaveIfBatchFull(
                    [cm EXCEPT !.cache = Remove(@, filename),
                               !._pending_writes = @ (+) SetToBag({filename})])]

\* Mutant: the stale entry is dropped from memory but no write is queued.
IsCachedEvictsSilently(cm, md, filename, min_size) ==
    IF filename \notin DOMAIN cm.cache
    THEN [ret |-> FALSE, cm |-> cm]
    ELSE IF FileValid(md, filename, min_size)
    THEN [ret |-> TRUE, cm |-> cm]
    ELSE [ret |-> FALSE,
          cm  |-> [cm EXCEPT !.cache = Remove(@, filename)]]

\* cache.py:87-117: the value returned and the CacheManager afterwards.  The
\* OSError branch (the file vanishes between exists() and getsize()) falls
\* through to the eviction like a missing file.
is_cached(cm, md, filename, min_size) ==
    IF filename \notin DOMAIN cm.cache
    THEN [ret |-> FALSE, cm |-> cm]
    ELSE IF FileValid(md, filename, min_size)
    THEN [ret |-> TRUE, cm |-> cm]
    ELSE [ret |-> FALSE,
          cm  |-> SaveIfBatchFull(
                    [cm EXCEPT !.cache = Remove(@, filename),
                               !._pending_writes = @ (+) SetToBag({filename})])]

\* cache.py:128-130: the loop over a list of filenames.
RECURSIVE MarkEach(_, _, _)
MarkEach(cm, t, filenames) ==
    IF filenames = <<>>
    THEN cm
    ELSE MarkEach([cm EXCEPT !.cache = Put(@, Head(filenames), t),
                             !._pending_writes = @ (+) SetToBag({Head(filenames)})],
                  t, Tail(filenames))

\* cache.py:119-138 with a list argument; t is datetime.now().
mark_cached_list(cm, t, filenames) ==
    SaveIfBatchFull(MarkEach(cm, t, filenames))

\* Mutant: the entry is queued for writing but not stored in memory.
MarkCachedQueuesOnly(cm, t, filename) ==
    SaveIfBatchFull([cm EXCEPT !._pending_writes = @ (+) SetToBag({filename})])

\* cache.py:119-138 with a single filename.
mark_cached(cm, t, filename) ==
    SaveIfBatchFull([cm EXCEPT !.cache = Put(@, filename, t),
                               !._pending_writes = @ (+) SetToBag({filename})])

\* cache.py:153-158
flush(cm) ==
    IF cm._pending_writes # EmptyBag
    THEN [_save_internal(cm) EXCEPT !._pending_writes = EmptyBag]
    ELSE cm

\* cache.py:160-165
clear(cm) ==
    _save_internal([cm EXCEPT !.cache = EmptyMap, !._pending_writes = EmptyBag])

\* cache.py:58-61
save(cm) == _save_internal(cm)

SetCM(cm) ==
    /\ cache' = cm.cache
    /\ _pending_writes' = cm._pending_writes
    /\ cache_file' = cm.cache_file

\* ---- the async variants (cache.py:80-85 and 140-151) ----

\* The executor runs nothing, or a _save_internal that found the map as
\* `seen` when it started.
ExecutorIdle == [st |-> "idle", seen |-> EmptyMap]
Serializing(seen) == [st |-> "saving", seen |-> seen]

\* cache.py:42-46 and 82, 142: the async lock is free.  An async variant
\* holds it from its start until its executor call has returned.
AsyncLockFree == executor.st = "idle"

\* cache.py:80-85: save_async up to its await
SaveAsyncCall ==
    /\ AsyncLockFree
    /\ executor' = Serializing(cache)
    /\ lastOp' = <<"save_async", "">>
    /\ UNCHANGED <<cache, _pending_writes, cache_file, media, now, ret>>

\* cache.py:140-151: mark_cached_async up to its await
MarkCachedAsyncCall(f) ==
    /\ AsyncLockFree
    /\ cache' = Put(cache, f, now)
    /\ executor' = Serializing(cache')
    /\ lastOp' = <<"mark_cached_async", f>>
    /\ UNCHANGED <<_pending_writes, cache_file, media, now, ret>>

\* What the _save_internal in the executor may have written when it ends.
\* It reads self.cache without holding self._lock: when the map was
\* modified meanwhile, json.dump may have read it before the change or
\* after it, or may have failed on a dict that changed size under it, in
\* which case the except clause at cache.py:72 leaves the file as it was.
ExecutorWrites ==
    IF cache = executor.seen
    THEN {[kind |-> "json", data |-> cache]}
    ELSE {[kind |-> "json", data |-> executor.seen],
          [kind |-> "json", data |-> cache],
          cache_file}

\* cache.py:85 and 151: the executor call returns
ExecutorDone(written) ==
    /\ executor.st = "saving"
    /\ written \in ExecutorWrites
    /\ cache_file' = written
    /\ executor' = ExecutorIdle
    /\ UNCHANGED <<cache, _pending_writes, media, now, lastOp, ret>>

\* ---- the calls, as actions of the ledger specification ----

IsCachedCall(f) ==
    LET r == is_cached(CM, media, f, DefaultMinSize)
    IN  /\ SetCM(r.cm)
        /\ ret' = r.ret
        /\ lastOp' = <<"is_cached", f>>
        /\ UNCHANGED <<media, now, executor>>

MarkCachedCall(f) ==
    /\ SetCM(mark_cached(CM, now, f))
    /\ lastOp' = <<"mark_cached", f>>
    /\ UNCHANGED <<media, now, ret, executor>>

MarkCachedListCall(fs) ==
    /\ SetCM(mark_cached_list(CM, now, fs))
    /\ lastOp' = <<"mark_cached_list", IF fs = <<>> THEN "" ELSE fs[Len(fs)]>>
    /\ UNCHANGED <<media, now, ret, executor>>

FlushCall ==
    /\ SetCM(flush(CM))
    /\ lastOp' = <<"flush", "">>
    /\ UNCHANGED <<media, now, ret, executor>>

ClearCall ==
    /\ SetCM(clear(CM))
    /\ lastOp' = <<"clear", "">>
    /\ UNCHANGED <<media, now, ret, executor>>

SaveCall ==
    /\ SetCM(save(CM))
    /\ lastOp' = <<"save", "">>
    /\ UNCHANGED <<media, now, ret, executor>>

\* A later process constructs a new CacheManager over the same ledger file.
Reload ==
    /\ SetCM(NewCacheManager(cache_file))
    /\ lastOp' = <<"init", "">>
    /\ UNCHANGED <<media, now, ret, executor>>

\* Something outside the CacheManager writes or deletes a media file.
MediaWrite(f, size) ==
    /\ media' = Put(media, f, size)
    /\ UNCHANGED <<cache, _pending_writes, cache_file, now, lastOp, ret, executor>>

MediaDelete(f) ==
    /\ f \in DOMAIN media
    /\ media' = Remove(media, f)
    /\ UNCHANGED <<cache, _pending_writes, cache_file, now, lastOp, ret, executor>>

Tick ==
    /\ now < MaxClock
    /\ now' = now + 1
    /\ UNCHANGED <<cache, _pending_writes, cache_file, media, lastOp, ret, executor>>

\* A ledger file left by earlier runs (entries stamped 0), missing, or corrupt.
LedgerFiles ==
    {[kind |-> "absent", data |-> EmptyMap], [kind |-> "corrupt", data |-> EmptyMap]}
        \cup {[kind |-> "json", data |-> d] : d \in MapsTo(Files, {0})}

CacheInit ==
    /\ cache_file \in LedgerFiles
    /\ cache = NewCacheManager(cache_file).cache
    /\ _pending_writes = NewCacheManager(cache_file)._pending_writes
    /\ media \in MapsTo(Files, Sizes)
    /\ now = 1
    /\ lastOp = <<"init", "">>
    /\ ret = FALSE
    /\ executor = ExecutorIdle

CacheIdle ==
    /\ cache = EmptyMap
    /\ _pending_writes = EmptyBag
    /\ cache_file = [kind |-> "absent", data |-> EmptyMap]
    /\ media = EmptyMap
    /\ now = 1
    /\ lastOp = <<"init", "">>
    /\ ret = FALSE
    /\ executor = ExecutorIdle

TrackerIdle ==
    /\ adaptive_stats = InitialAdaptiveStats
    /\ lastCall = <<NoStatus, "None">>
    /\ throttles = 0
    /\ calls = 0
    /\ emitting = FALSE

(***************************************************************************)
(*               ROW PROCESSOR AND PIPELINE COORDINATOR                    *)
(***************************************************************************)

\* Bounds of the build specification.  The source has Config.CONCURRENCY = 4
\* (settings.py:59), batch_size = 50 (builder.py:644) and Config.RETRIES = 5
\* (settings.py:60); the model runs the same code over a vocabulary of
\* NumRows rows with these values scaled down.
NumRows == 3
CONCURRENCY == 1
batch_size == 2
RETRIES == 2
\* The rows of one run in which an exception is raised.
MaxRaising == 1

\* builder.py:580, the [:50] slice
FailedWordLength == 50
\* images.py:121 and audio.py:90: the least sizes the fetchers accept
MinImageBytes == 2000
MinAudioBytes == 100

\* ---- strings, as sequences of characters ----

RECURSIVE LStrip(_)
LStrip(w) == IF w # <<>> /\ Head(w) = " " THEN LStrip(Tail(w)) ELSE w
RECURSIVE RStrip(_)
RStrip(w) == IF w # <<>> /\ w[Len(w)] = " " THEN RStrip(SubSeq(w, 1, Len(w) - 1)) ELSE w
\* str.strip()
Strip(w) == RStrip(LStrip(w))
\* the slice w[:n]
Truncate(w, n) == SubSeq(w, 1, Min(Len(w), n))

\* ---- TextParser.clean_for_tts ----

DigitChars == {"0", "1", "2", "3", "4", "5", "6", "7", "8", "9"}

\* parsing.py:99, html.unescape, for the entities &lt; &gt; and &amp;
RECURSIVE html_unescape(_)
html_unescape(text) ==
    IF text = <<>>
    THEN <<>>
    ELSE IF Len(text) >= 4 /\ SubSeq(text, 1, 4) = <<"&", "l", "t", ";">>
    THEN <<"<">> \o html_unescape(SubSeq(text, 5, Len(text)))
    ELSE IF Len(text) >= 4 /\ SubSeq(text, 1, 4) = <<"&", "g", "t", ";">>
    THEN <<">">> \o html_unescape(SubSeq(text, 5, Len(text)))
    ELSE IF Len(text) >= 5 /\ SubSeq(text, 1, 5) = <<"&", "a", "m", "p", ";">>
    THEN <<"&">> \o html_unescape(SubSeq(text, 6, Len(text)))
    ELSE <<Head(text)>> \o html_unescape(Tail(text))

\* parsing.py:20 and 102: HTML_TAG_PATTERN.sub('', text), the pattern being
\* "<", one or more characters other than ">", and ">"
RECURSIVE RemoveTags(_)
RemoveTags(text) ==
    IF text = <<>>
    THEN <<>>
    ELSE LET closes == {j \in 2..Len(text) : text[j] = ">"}
             first  == CHOOSE j \in closes : \A k \in closes : j <= k
         IN  IF Head(text) = "<" /\ closes # {} /\ first >= 3
             THEN RemoveTags(SubSeq(text, first + 1, Len(text)))
             ELSE <<Head(text)>> \o RemoveTags(Tail(text))

\* the length of the run of characters of set cs that starts at text[i]
RECURSIVE Run(_, _, _)
Run(text, i, cs) ==
    IF i <= Len(text) /\ text[i] \in cs THEN 1 + Run(text, i + 1, cs) ELSE 0

\* parsing.py:23: where a match of NUMBERED_LIST_PATTERN that starts at
\* text[i] ends (0: no match there); lead is 0 for the alternative "^" and
\* 1 for the alternative "\s"
NumberedEnd(text, i, lead) ==
    LET d   == Run(text, i + lead, DigitChars)
        dot == i + lead + d
    IN  IF /\ lead = 1 => text[i] = " "
           /\ d >= 1
           /\ dot <= Len(text)
           /\ text[dot] \in {".", ")"}
        THEN dot + Run(text, dot + 1, {" "})
        ELSE 0

\* parsing.py:105: NUMBERED_LIST_PATTERN.sub(' ', text), from text[i] on
RECURSIVE RemoveNumbered(_, _)
RemoveNumbered(text, i) ==
    IF i > Len(text)
    THEN <<>>
    ELSE LET e == IF i = 1 /\ NumberedEnd(text, 1, 0) # 0
                  THEN NumberedEnd(text, 1, 0)
                  ELSE NumberedEnd(text, i, 1)
         IN  IF e # 0
             THEN <<" ">> \o RemoveNumbered(text, e + 1)
             ELSE <<text[i]>> \o RemoveNumbered(text, i + 1)

\* parsing.py:108: WHITESPACE_PATTERN.sub(' ', text)
RECURSIVE CollapseSpaces(_)
CollapseSpaces(text) ==
    IF text = <<>>
    THEN <<>>
    ELSE IF Head(text) = " "
    THEN <<" ">> \o CollapseSpaces(SubSeq(text, 1 + Run(text, 1, {" "}), Len(text)))
    ELSE <<Head(text)>> \o CollapseSpaces(Tail(text))

\* parsing.py:29-44: NFC puts a letter and the combining accent after it
\* into one character
RECURSIVE normalize_unicode(_)
normalize_unicode(text) ==
    IF text = <<>>
    THEN <<>>
    ELSE IF Len(text) >= 2 /\ text[1] = "e" /\ text[2] = "combining acute"
    THEN <<"e acute">> \o normalize_unicode(SubSeq(text, 3, Len(text)))
    ELSE <<Head(text)>> \o normalize_unicode(Tail(text))

\* parsing.py:81-113
clean_for_tts(text) ==
    IF text = <<>>
    THEN <<>>
    ELSE normalize_unicode(
             Strip(CollapseSpaces(RemoveNumbered(RemoveTags(html_unescape(text)), 1))))

\* ---- the vocabulary ----

BlankWord == <<" ">>
ShortWord == <<" ", "a", "b">>
LongWord  == [i \in 1..52 |-> "a"]
NoText    == <<>>
Prompt    == <<"a", " ", "c", "a", "t">>
Sentence  == <<"s", ".">>
\* a sentence that is markup and a list number only
Markup    == <<"<", "b", ">", "3", ".", "<", "/", "b", ">">>

Noun      == <<"n">>
Meaning   == <<"m", " ">>

\* The rows a vocabulary is made of: TargetWord, Part_of_Speech, Meaning,
\* ImagePrompt and the three entries of
\* TextParser.split_sentences(ContextSentences, 3, pad=True).
RowKinds ==
    <<[TargetWord |-> ShortWord, Part_of_Speech |-> Noun, Meaning |-> Meaning,
       ImagePrompt |-> Prompt, sentences |-> <<NoText, NoText, NoText>>],
      [TargetWord |-> LongWord, Part_of_Speech |-> NoText, Meaning |-> Meaning,
       ImagePrompt |-> NoText, sentences |-> <<Sentence, Markup, NoText>>],
      [TargetWord |-> BlankWord, Part_of_Speech |-> NoText, Meaning |-> NoText,
       ImagePrompt |-> NoText, sentences |-> <<NoText, NoText, NoText>>]>>

Rows == 1..NumRows

\* vocabulary_service.py:396-421: the shuffled DataFrame.  The vocabularies
\* of the model are the row kinds in rotation, from each starting kind.
Vocabularies ==
    {[r \in Rows |-> RowKinds[((r + k) % Len(RowKinds)) + 1]] : k \in 1..Len(RowKinds)}

\* The order the same vocabulary had in the earlier run: df.sample gave the
\* rows in the order of RowKinds.
EarlierRun == [r \in Rows |-> RowKinds[((r - 1) % Len(RowKinds)) + 1]]

\* builder.py:99: self.language
language == <<"D", "E">>

\* str(index) inside the f-string of paths.py:140: the decimal digits of a
\* non-negative integer.
RECURSIVE Digits(_)
Digits(n) ==
    IF n < 10
    THEN <<(<<"0", "1", "2", "3", "4", "5", "6", "7", "8", "9">>)[n + 1]>>
    ELSE Digits(n \div 10) \o Digits(n % 10)

\* hashlib.sha256(s.encode()).hexdigest()[:32] (paths.py:141).  The digest is
\* not computed: it is modelled by its argument, that is, as a function of
\* the hashed string alone that gives distinct strings distinct digests.
sha256_hexdigest_32(unique_string) == <<"sha256", unique_string>>

\* Mutant: the row's index is left out of the hashed string.
GenerateCardUuidWithoutIndex(word, pos, meaning, index, lang) ==
    <<sha256_hexdigest_32(word \o <<"|">> \o pos \o <<"|">> \o meaning), "_", lang>>

\* paths.py:122-142
generate_card_uuid(word, pos, meaning, index, lang) ==
    LET unique_string ==
            word \o <<"|">> \o pos \o <<"|">> \o meaning \o <<"|">> \o Digits(index)
    IN  <<sha256_hexdigest_32(unique_string), "_", lang>>

\* builder.py:408-423: the identifier of a row.  The words of the model hold
\* nothing for Config.STRIP_REGEX to remove, and are in normal form.
RowUuid(row, index) ==
    generate_card_uuid(Strip(row.TargetWord), Strip(row.Part_of_Speech),
                       Strip(row.Meaning), index, language)

\* paths.py:144-163
get_all_media_files(card_uuid) ==
    [image  |-> <<"image", card_uuid>>,
     word   |-> <<"word", card_uuid>>,
     sent_1 |-> <<"sent_1", card_uuid>>,
     sent_2 |-> <<"sent_2", card_uuid>>,
     sent_3 |-> <<"sent_3", card_uuid>>]

\* builder.py:408-423 and 444: the filenames of a row.
RowFiles(row, index) ==
    get_all_media_files(RowUuid(row, index))

SentKeys == <<"sent_0", "sent_1", "sent_2">>
SentFile(files, i) == <<files.sent_1, files.sent_2, files.sent_3>>[i]
ConfettiFile == <<"_confetti.js">>

\* ---- a fetch in flight ----

\* st is where the fetch stands, attempt the loop variable of
\* _download_from_api, requests the requests sent so far, and wait the
\* seconds of the sleep the fetch entered last (0: none).
NewTask == [st |-> "new", attempt |-> 0, requests |-> 0, wait |-> 0]
\* Mutant: a fetch that has sent a request counts as over.
ResolvedOrRunning(task) == task.st # "new"

\* builder.py:492: gather(..., return_exceptions=True) has the result of a
\* fetch once it returned True or False or raised.
Resolved(task) == task.st \in {"ok", "fail", "exc"}

\* ---- the builder's accumulators, threaded through one synchronous
\* ---- stretch of process_row ----

Builder ==
    [stats |-> stats, failed_words |-> failed_words, deck |-> deck,
     media_files |-> media_files, processed |-> _processed_items, cm |-> CM]

InitialStats ==
    [words_processed |-> 0, images_success |-> 0, images_failed |-> 0,
     audio_word_success |-> 0, audio_word_failed |-> 0,
     audio_sent_success |-> 0, audio_sent_failed |-> 0, rows_failed |-> 0]

\* builder.py:50-53
increment(b, key) == [b EXCEPT !.stats[key] = @ + 1]

\* builder.py:584-590 (the emitted progress event changes no state)
_update_progress(b) == [b EXCEPT !.processed = @ + 1]

\* builder.py:293-296
_add_media_file(b, path) == [b EXCEPT !.media_files = Append(@, path)]

\* Mutant: the failing word is recorded in full.
RowFailedUntruncated(b, row) ==
    _update_progress(
        [increment(b, "rows_failed") EXCEPT
            !.failed_words = Append(@, row.TargetWord)])

\* builder.py:577-582: the except block of process_row.
RowFailed(b, row) ==
    _update_progress(
        [increment(b, "rows_failed") EXCEPT
            !.failed_words = Append(@, Truncate(row.TargetWord, FailedWordLength))])

\* Mutant: the fetch is queued whatever the lookup returned.
QueueWhateverCached(acc, md, key, filename) ==
    LET r == is_cached(acc.cm, md, filename, DefaultMinSize)
    IN  [cm |-> r.cm, hit |-> r.ret, tasks |-> Put(acc.tasks, key, NewTask)]

\* builder.py:455-462 and 465-473: look one file up; queue a fetch when it
\* is not cached.  acc is [cm, tasks].
CheckOrQueue(acc, md, key, filename) ==
    LET r == is_cached(acc.cm, md, filename, DefaultMinSize)
    IN  [cm    |-> r.cm,
         hit   |-> r.ret,
         tasks |-> IF r.ret THEN acc.tasks ELSE Put(acc.tasks, key, NewTask)]

\* builder.py:476-487: the loop over the three sentences, from entry i on.
\* acc is [cm, tasks, sentence_results].
RECURSIVE CheckSentences(_, _, _, _, _)
CheckSentences(acc, md, row, files, i) ==
    IF i > 3
    THEN acc
    ELSE IF row.sentences[i] = NoText
    THEN CheckSentences(acc, md, row, files, i + 1)
    ELSE LET c == CheckOrQueue(acc, md, SentKeys[i], SentFile(files, i))
         IN  CheckSentences(
                [cm |-> c.cm, tasks |-> c.tasks,
                 sentence_results |-> [acc.sentence_results EXCEPT ![i] = c.hit]],
                md, row, files, i + 1)

\* builder.py:451-487: the cache checks of one row.  Returns the
\* CacheManager afterwards and the locals has_img, has_w, sentence_results
\* and tasks.
CheckCache(cm, md, row, files) ==
    LET img  == CheckOrQueue([cm |-> cm, tasks |-> EmptyMap], md, "img", files.image)
        word == CheckOrQueue([cm |-> img.cm, tasks |-> img.tasks], md, "word", files.word)
        sent == CheckSentences(
                    [cm |-> word.cm, tasks |-> word.tasks,
                     sentence_results |-> <<FALSE, FALSE, FALSE>>],
                    md, row, files, 1)
    IN  [cm |-> sent.cm,
         loc |-> [has_img |-> img.hit, has_w |-> word.hit,
                  sentence_results |-> sent.sentence_results,
                  tasks |-> sent.tasks]]

\* Mutant: a queued fetch counts as done whatever it returned.
TaskResultIgnoresFailure(loc, key, default) ==
    IF key \in DOMAIN loc.tasks THEN TRUE ELSE default

\* builder.py:489-494: task_results.get(key, default)
TaskResult(loc, key, default) ==
    IF key \in DOMAIN loc.tasks THEN loc.tasks[key].st = "ok" ELSE default

\* builder.py:505-516: one media kind's statistic and ledger entry.
Tally(b, t, has, success_key, failed_key, filename) ==
    IF has
    THEN [increment(b, success_key) EXCEPT !.cm = mark_cached(@, t, filename)]
    ELSE increment(b, failed_key)

\* builder.py:518-524: the loop over the three sentences, from entry i on.
RECURSIVE TallySentences(_, _, _, _, _, _)
TallySentences(b, t, row, files, has_s, i) ==
    IF i > 3
    THEN b
    ELSE TallySentences(
            IF has_s[i]
            THEN [increment(b, "audio_sent_success") EXCEPT
                      !.cm = mark_cached(@, t, SentFile(files, i))]
            ELSE IF row.sentences[i] # NoText
            THEN increment(b, "audio_sent_failed")
            ELSE b,
            t, row, files, has_s, i + 1)

\* builder.py:526-536
RECURSIVE AddMediaFiles(_, _, _)
AddMediaFiles(b, paths, flags) ==
    IF paths = <<>>
    THEN b
    ELSE AddMediaFiles(IF Head(flags) THEN _add_media_file(b, Head(paths)) ELSE b,
                       Tail(paths), Tail(flags))

\* builder.py:546-573: the note of a row (the fields the pipeline computes).
Note(row, index, files, has_img, has_w, has_s) ==
    [index      |-> index,
     TargetWord |-> row.TargetWord,
     Image      |-> IF has_img THEN files.image ELSE <<>>,
     AudioWord  |-> IF has_w THEN files.word ELSE <<>>,
     Audio_Sent |-> [i \in 1..3 |-> IF has_s[i] THEN SentFile(files, i) ELSE <<>>],
     UUID       |-> RowUuid(row, index)]

\* Mutant: the exception is raised once the note is in the deck.
FinishRowFailsAfterNote(b, t, row, index, loc, exc) ==
    LET files   == RowFiles(row, index)
        has_img == loc.has_img \/ TaskResult(loc, "img", FALSE)
        has_w   == loc.has_w \/ TaskResult(loc, "word", FALSE)
        has_s   == [i \in 1..3 |-> TaskResult(loc, SentKeys[i], loc.sentence_results[i])]
        b1 == Tally(b, t, has_img, "images_success", "images_failed", files.image)
        b2 == Tally(b1, t, has_w, "audio_word_success", "audio_word_failed", files.word)
        b3 == TallySentences(b2, t, row, files, has_s, 1)
        b4 == AddMediaFiles(b3,
                  <<files.image, files.word, files.sent_1, files.sent_2, files.sent_3>>,
                  <<has_img, has_w, has_s[1], has_s[2], has_s[3]>>)
        b5 == _update_progress(b4)
        b6 == [b5 EXCEPT !.deck = Append(@, Note(row, index, files, has_img, has_w, has_s))]
    IN  IF exc = "at_note" THEN RowFailed(b6, row) ELSE b6

\* builder.py:496-575: process_row from the return of gather to the end of
\* the try block.  exc = "at_note" is an exception raised while the note is
\* built (after _update_progress), which the except block then handles.
FinishRow(b, t, row, index, loc, exc) ==
    LET files   == RowFiles(row, index)
        has_img == loc.has_img \/ TaskResult(loc, "img", FALSE)
        has_w   == loc.has_w \/ TaskResult(loc, "word", FALSE)
        has_s   == [i \in 1..3 |-> TaskResult(loc, SentKeys[i], loc.sentence_results[i])]
        b1 == Tally(b, t, has_img, "images_success", "images_failed", files.image)
        b2 == Tally(b1, t, has_w, "audio_word_success", "audio_word_failed", files.word)
        b3 == TallySentences(b2, t, row, files, has_s, 1)
        b4 == AddMediaFiles(b3,
                  <<files.image, files.word, files.sent_1, files.sent_2, files.sent_3>>,
                  <<has_img, has_w, has_s[1], has_s[2], has_s[3]>>)
        b5 == _update_progress(b4)
    IN  IF exc = "at_note"
        THEN RowFailed(b5, row)
        ELSE [b5 EXCEPT !.deck = Append(@, Note(row, index, files, has_img, has_w, has_s))]

\* ---- the image fetcher ----

\* settings.py: Config.CONFETTI_URL, the "prompt" of the confetti download
CONFETTI_URL == <<"h", "t", "t", "p", "s">>

\* ---- responses of the image service ----

\* The first twelve bytes of a response body.
JpegHead == <<"FF", "D8", "FF", "E0", "00", "10", "J", "F", "I", "F", "00", "01">>
PngHead  == <<"89", "P", "N", "G", "0D", "0A", "1A", "0A", "00", "00", "00", "0D">>
WebpHead == <<"R", "I", "F", "F", "24", "08", "00", "00", "W", "E", "B", "P">>
WaveHead == <<"R", "I", "F", "F", "24", "08", "00", "00", "W", "A", "V", "E">>
GifHead  == <<"G", "I", "F", "8", "9", "a", "40", "01", "C8", "00", "F7", "00">>
HtmlHead == <<"<", "!", "D", "O", "C", "T", "Y", "P", "E", " ", "h", "t">>

Heads == {JpegHead, PngHead, WebpHead, WaveHead, GifHead, HtmlHead}
BodyLengths == {3, MinImageBytes, MinImageBytes + 1}

\* A body of n bytes that begins with the bytes of h: its length and the
\* bytes the code looks at.
Body(h, n) == [head |-> SubSeq(h, 1, Min(n, Len(h))), len |-> n]
EmptyBody == [head |-> <<>>, len |-> 0]
Bodies ==
    {Body(h, MinImageBytes + 1) : h \in Heads}
        \cup {Body(JpegHead, n) : n \in BodyLengths} \cup {EmptyBody}

\* What a request meets: a response with a status and a body, or status 0
\* for a timeout or a connection error (no response).
Responses ==
    {[status |-> 200, body |-> b] : b \in Bodies}
        \cup {[status |-> c, body |-> EmptyBody] : c \in {0, 401, 429, 500}}

\* images.py:17-23
IMAGE_MAGIC_BYTES ==
    <<[magic |-> <<"FF", "D8", "FF">>, fmt |-> "jpeg"],
      [magic |-> <<"89", "P", "N", "G">>, fmt |-> "png"],
      [magic |-> <<"R", "I", "F", "F">>, fmt |-> "webp"],
      [magic |-> <<"G", "I", "F", "8">>, fmt |-> "gif"]>>

\* bytes.startswith
StartsWith(content, magic) ==
    /\ Len(content.head) >= Len(magic)
    /\ SubSeq(content.head, 1, Len(magic)) = magic

\* images.py:26-36; "None" is None
detect_image_format(content) ==
    IF content.len < 4
    THEN "None"
    ELSE LET hits == {i \in 1..Len(IMAGE_MAGIC_BYTES) :
                         StartsWith(content, IMAGE_MAGIC_BYTES[i].magic)}
         IN  IF hits # {}
             THEN IMAGE_MAGIC_BYTES[CHOOSE i \in hits : \A j \in hits : i <= j].fmt
             ELSE IF /\ StartsWith(content, <<"R", "I", "F", "F">>)
                     /\ content.len > 12
                     /\ SubSeq(content.head, 9, 12) = <<"W", "E", "B", "P">>
             THEN "webp"
             ELSE "None"

\* images.py:119-121: the body of a 200 response is taken as the image
Accepted(content) ==
    detect_image_format(content) # "None" /\ content.len > MinImageBytes

\* Mutant: the fetcher asks again after the last attempt.
ImageOutcomeRetriesForever(task, resp) ==
    IF resp.status = 200 /\ Accepted(resp.body)
    THEN [task |-> [task EXCEPT !.st = "ok", !.requests = @ + 1, !.wait = 0],
          cb |-> <<200, "True">>, write |-> TRUE]
    ELSE [task |-> [task EXCEPT !.attempt = @ + 1, !.requests = @ + 1,
                                !.wait = Pow2(task.attempt)],
          cb |-> <<>>, write |-> FALSE]

\* Mutant: a 401 response is retried like any other error status.
ImageOutcomeRetries401(task, resp) ==
    IF task.attempt >= RETRIES
    THEN [task |-> [task EXCEPT !.st = "fail", !.wait = 0],
          cb |-> <<NoStatus, "False">>, write |-> FALSE]
    ELSE IF resp.status = 200 /\ Accepted(resp.body)
    THEN [task |-> [task EXCEPT !.st = "ok", !.requests = @ + 1, !.wait = 0],
          cb |-> <<200, "True">>, write |-> TRUE]
    ELSE [task |-> [task EXCEPT !.attempt = @ + 1, !.requests = @ + 1,
                                !.wait = Pow2(task.attempt)],
          cb |-> IF resp.status = 429 THEN <<429, "False">> ELSE <<>>, write |-> FALSE]

\* Mutant: a 429 response is retried without a word to the tracker.
ImageOutcomeSilentThrottle(task, resp) ==
    IF task.attempt >= RETRIES
    THEN [task |-> [task EXCEPT !.st = "fail", !.wait = 0],
          cb |-> <<NoStatus, "False">>, write |-> FALSE]
    ELSE IF resp.status = 200 /\ Accepted(resp.body)
    THEN [task |-> [task EXCEPT !.st = "ok", !.requests = @ + 1, !.wait = 0],
          cb |-> <<200, "True">>, write |-> TRUE]
    ELSE IF resp.status = 401
    THEN [task |-> [task EXCEPT !.st = "fail", !.requests = @ + 1, !.wait = 0],
          cb |-> <<NoStatus, "False">>, write |-> FALSE]
    ELSE [task |-> [task EXCEPT !.attempt = @ + 1, !.requests = @ + 1,
                                !.wait = (IF resp.status = 429 THEN 5 ELSE 1)
                                            * Pow2(task.attempt)],
          cb |-> <<>>, write |-> FALSE]

\* images.py:97-165 and 182-192: what one pass of the loop of
\* _download_from_api does with the response to its request, and what fetch
\* does when _download_from_api returns.  Gives the task afterwards, the
\* signal sent to the tracker (<<>> for none), and whether the file was
\* written.  With attempt = RETRIES the loop is over: no request is sent.
ImageOutcome(task, resp) ==
    IF task.attempt >= RETRIES
    THEN [task |-> [task EXCEPT !.st = "fail", !.wait = 0],
          cb |-> <<NoStatus, "False">>, write |-> FALSE]
    ELSE IF resp.status = 200
    THEN IF Accepted(resp.body)
         THEN [task |-> [task EXCEPT !.st = "ok", !.requests = @ + 1, !.wait = 0],
               cb |-> <<200, "True">>, write |-> TRUE]
         ELSE IF task.attempt < RETRIES - 1
         THEN [task |-> [task EXCEPT !.attempt = @ + 1, !.requests = @ + 1,
                                     !.wait = Pow2(task.attempt + 1)],
               cb |-> <<>>, write |-> FALSE]
         ELSE [task |-> [task EXCEPT !.st = "fail", !.requests = @ + 1, !.wait = 0],
               cb |-> <<NoStatus, "False">>, write |-> FALSE]
    ELSE IF resp.status = 401
    THEN [task |-> [task EXCEPT !.st = "fail", !.requests = @ + 1, !.wait = 0],
          cb |-> <<NoStatus, "False">>, write |-> FALSE]
    ELSE IF resp.status = 429
    THEN [task |-> [task EXCEPT !.attempt = @ + 1, !.requests = @ + 1,
                                !.wait = 5 * Pow2(task.attempt)],
          cb |-> <<429, "False">>, write |-> FALSE]
    ELSE [task |-> [task EXCEPT !.attempt = @ + 1, !.requests = @ + 1,
                                !.wait = Pow2(task.attempt)],
          cb |-> <<>>, write |-> FALSE]

\* images.py:167-192 and 90-95: fetch up to its first request.  ev is
\* "opened" (the session is there) or "raise" (_get_session raised).
ImageBegin(task, prompt, key, ev) ==
    IF Len(Strip(prompt)) < 5
    THEN [task |-> [task EXCEPT !.st = "fail"], cb |-> <<>>, open |-> FALSE]
    ELSE IF ~key
    THEN [task |-> [task EXCEPT !.st = "fail"], cb |-> <<NoStatus, "False">>, open |-> FALSE]
    ELSE IF ev = "raise"
    THEN [task |-> [task EXCEPT !.st = "exc"], cb |-> <<>>, open |-> FALSE]
    ELSE [task |-> [task EXCEPT !.st = "run"], cb |-> <<>>, open |-> TRUE]

\* images.py:51: self._session = None
NoSession == [st |-> "none", made |-> 0, live |-> 0]

\* Mutant: a session is constructed at every call.
GetSessionAlwaysNew(s) ==
    [st |-> "open", made |-> s.made + 1, live |-> s.live + 1]

\* images.py:54-73: the fetcher's session after _get_session, which
\* constructs one when there is none or it is closed
_get_session(s) ==
    IF s.st # "open"
    THEN [st |-> "open", made |-> s.made + 1, live |-> s.live + 1]
    ELSE s

\* images.py:75-80: the fetcher's session after close
close(s) ==
    IF s.st = "open" THEN [s EXCEPT !.st = "closed", !.live = @ - 1] ELSE s

\* ---- the audio fetcher ----

AudioSizes == {MinAudioBytes + 1}
AudioEvents == {"ok", "small", "r429", "err"}

\* builder.py:465-487: the text handed to audio_fetcher.fetch for a task
AudioSource(row, key) ==
    IF key = "word" THEN Strip(row.TargetWord)
    ELSE IF key = "sent_0" THEN row.sentences[1]
    ELSE IF key = "sent_1" THEN row.sentences[2]
    ELSE row.sentences[3]

\* The texts of the vocabulary that reach the audio fetcher, and what
\* clean_for_tts makes of each (computed once).
AudioTexts ==
    {AudioSource(RowKinds[k], key) :
        k \in 1..Len(RowKinds), key \in {"word", "sent_0", "sent_1", "sent_2"}}
CleanedTexts == [text \in AudioTexts |-> clean_for_tts(text)]

\* audio.py:47-49
clean_text(text) ==
    IF text \in AudioTexts THEN CleanedTexts[text] ELSE clean_for_tts(text)

\* audio.py:51-116: requests counts the calls of edge_tts
AudioOutcome(task, source, ev) ==
    IF Strip(source) = <<>> \/ clean_text(source) = <<>>
    THEN [task |-> [task EXCEPT !.st = "fail"], cb |-> <<>>, write |-> FALSE]
    ELSE IF ev = "ok"
    THEN [task |-> [task EXCEPT !.st = "ok", !.requests = @ + 1],
          cb |-> <<200, "True">>, write |-> TRUE]
    ELSE IF ev = "small"
    THEN [task |-> [task EXCEPT !.st = "fail", !.requests = @ + 1],
          cb |-> <<>>, write |-> FALSE]
    ELSE IF ev = "r429"
    THEN [task |-> [task EXCEPT !.st = "fail", !.requests = @ + 1],
          cb |-> <<429, "False">>, write |-> FALSE]
    ELSE [task |-> [task EXCEPT !.st = "fail", !.requests = @ + 1],
          cb |-> <<NoStatus, "False">>, write |-> FALSE]

\* ---- signals from the fetchers to the tracker ----

\* builder.py:163-168: the fetchers' concurrency_callback is
\* _adjust_concurrency.  The progress callback of a run returns at once
\* (dashboard.py:890-895 puts the event on a queue without waiting).
Notify(status_code, is_success) ==
    /\ adaptive_stats' = _adjust_concurrency(adaptive_stats, status_code, is_success)
    /\ UNCHANGED <<lastCall, throttles, calls, emitting>>

Callback(cb) ==
    IF cb = <<>> THEN UNCHANGED trackerVars ELSE Notify(cb[1], cb[2])

\* Mutant: a 429 takes a slot away from the limiter.
LimiterShrunkOn429(sem, cb) == IF cb # <<>> /\ cb[1] = 429 THEN sem - 1 ELSE sem

\* builder.py:261-282: _adjust_concurrency does not touch self.semaphore
\* ("We no longer dynamically replace the semaphore"), which is assigned at
\* builder.py:158 only.
LimiterAfter(sem, cb) == sem

\* The callback as a fetch of a row makes it, the row holding a slot.
RowCallback(cb) ==
    /\ Callback(cb)
    /\ semaphore' = LimiterAfter(semaphore, cb)

\* ---- process_row ----

IdleLocal ==
    [has_img |-> FALSE, has_w |-> FALSE,
     sentence_results |-> <<FALSE, FALSE, FALSE>>,
     tasks |-> EmptyMap, backoff |-> 0]

SetBuilder(b) ==
    /\ stats' = b.stats
    /\ failed_words' = b.failed_words
    /\ deck' = b.deck
    /\ media_files' = b.media_files
    /\ _processed_items' = b.processed
    /\ SetCM(b.cm)

\* Mutant: the limiter admits a row whether or not a slot is free.
SlotAlwaysFree(sem) == TRUE

\* builder.py:158 and 406: asyncio.Semaphore admits a row only while its
\* counter is positive.
SlotFree(sem) == sem > 0

\* Mutant: a row that leaves the protected section keeps its slot.
SlotKept(sem) == sem

\* builder.py:406: leaving "async with self.semaphore", by the end of the
\* block, by return or by an exception, gives the slot back.
release(sem) == sem + 1

\* Mutant: the word is counted before it is tested for emptiness.
EnterRowCountsBlank(b, md, t, row, index, exc) ==
    IF exc = "before_count"
    THEN [b |-> RowFailed(b, row), next |-> "failed", loc |-> IdleLocal]
    ELSE LET b1 == increment(b, "words_processed")
         IN  IF Strip(row.TargetWord) = <<>>
             THEN [b |-> _update_progress(b1), next |-> "skipped", loc |-> IdleLocal]
             ELSE IF exc = "after_count"
             THEN [b |-> RowFailed(b1, row), next |-> "failed", loc |-> IdleLocal]
             ELSE LET c  == CheckCache(b1.cm, md, row, RowFiles(row, index))
                      b2 == [b1 EXCEPT !.cm = c.cm]
                  IN  IF DOMAIN c.loc.tasks # {}
                      THEN [b |-> b2, next |-> "fetch", loc |-> c.loc]
                      ELSE [b |-> FinishRow(b2, t, row, index, c.loc, exc),
                            next |-> IF exc = "at_note" THEN "failed" ELSE "card",
                            loc |-> IdleLocal]

\* builder.py:406-494: process_row from the acquired slot to its first
\* suspension or its end.  exc names the place where an exception is raised:
\* "before_count" (408-423), "after_count" (426-449), "at_note" (546-575).
EnterRow(b, md, t, row, index, exc) ==
    IF exc = "before_count"
    THEN [b |-> RowFailed(b, row), next |-> "failed", loc |-> IdleLocal]
    ELSE IF Strip(row.TargetWord) = <<>>
    THEN [b |-> _update_progress(b), next |-> "skipped", loc |-> IdleLocal]
    ELSE LET b1 == increment(b, "words_processed")
         IN  IF exc = "after_count"
             THEN [b |-> RowFailed(b1, row), next |-> "failed", loc |-> IdleLocal]
             ELSE LET c  == CheckCache(b1.cm, md, row, RowFiles(row, index))
                      b2 == [b1 EXCEPT !.cm = c.cm]
                  IN  IF DOMAIN c.loc.tasks # {}
                      THEN [b |-> b2, next |-> "fetch", loc |-> c.loc]
                      ELSE [b |-> FinishRow(b2, t, row, index, c.loc, exc),
                            next |-> IF exc = "at_note" THEN "failed" ELSE "card",
                            loc |-> IdleLocal]

\* An exception is raised in at most MaxRaising rows of a run.
MayRaise(exc) ==
    exc # "none" => Cardinality({r \in Rows : raised[r]}) < MaxRaising

\* Mutant: the row takes its slot before it serves the delay.
SleepsInsideSlot(sem) == sem - 1

\* builder.py:400-405: the delay is read and served above the "async with"
\* of line 406; the limiter is as it was.
AtBackoff(sem) == sem

\* builder.py:400-404
RowStart(r) ==
    /\ rpc[r] = "start"
    /\ rpc' = [rpc EXCEPT ![r] = "sleep"]
    /\ local' = [local EXCEPT ![r].backoff = _get_backoff_delay(adaptive_stats)]
    /\ semaphore' = AtBackoff(semaphore)
    /\ UNCHANGED <<trackerVars, cacheVars, rows, has_api_key, bpc, batch_start,
                   interrupted, outcome, raised, session, confetti,
                   stats, failed_words, deck, media_files, _total_items, emitted,
                   _processed_items>>

\* builder.py:406-494
RowEnter(r, exc) ==
    /\ rpc[r] = "sleep"
    /\ SlotFree(semaphore)
    /\ MayRaise(exc)
    /\ LET e == EnterRow(Builder, media, now, rows[r], r - 1, exc)
       IN  /\ SetBuilder(e.b)
           /\ IF e.next = "fetch"
              THEN /\ rpc' = [rpc EXCEPT ![r] = "fetch"]
                   /\ semaphore' = semaphore - 1
                   /\ local' = [local EXCEPT ![r] =
                                   [has_img |-> e.loc.has_img, has_w |-> e.loc.has_w,
                                    sentence_results |-> e.loc.sentence_results,
                                    tasks |-> e.loc.tasks, backoff |-> @.backoff]]
                   /\ UNCHANGED <<outcome, raised>>
              ELSE /\ rpc' = [rpc EXCEPT ![r] = "done"]
                   /\ outcome' = [outcome EXCEPT ![r] = e.next]
                   /\ raised' = [raised EXCEPT ![r] = (e.next = "failed")]
                   /\ local' = [local EXCEPT ![r] = IdleLocal]
                   /\ UNCHANGED semaphore
    /\ UNCHANGED <<trackerVars, media, now, lastOp, ret, executor, rows, has_api_key, bpc,
                   batch_start, interrupted, session, confetti, _total_items, emitted>>

RowFetching(r, key) ==
    /\ rpc[r] = "fetch"
    /\ key \in DOMAIN local[r].tasks

\* images.py:167-192, for the image task of row r, up to its first request
RowImageBegin(r, ev) ==
    /\ RowFetching(r, "img")
    /\ local[r].tasks["img"].st = "new"
    /\ LET o == ImageBegin(local[r].tasks["img"], rows[r].ImagePrompt, has_api_key, ev)
       IN  /\ local' = [local EXCEPT ![r].tasks["img"] = o.task]
           /\ session' = IF o.open THEN _get_session(session) ELSE session
           /\ RowCallback(o.cb)
    /\ UNCHANGED <<cacheVars, rows, has_api_key, bpc, batch_start, interrupted, rpc,
                   outcome, raised, confetti, stats, failed_words, deck,
                   media_files, _total_items, emitted, _processed_items>>

\* images.py:97-165, for the image task of row r: one response
RowImageStep(r, resp) ==
    /\ RowFetching(r, "img")
    /\ local[r].tasks["img"].st = "run"
    /\ LET o == ImageOutcome(local[r].tasks["img"], resp)
       IN  /\ local' = [local EXCEPT ![r].tasks["img"] = o.task]
           /\ media' = IF o.write
                       THEN Put(media, RowFiles(rows[r], r - 1).image, resp.body.len)
                       ELSE media
           /\ RowCallback(o.cb)
    /\ UNCHANGED <<cache, _pending_writes, cache_file, now, lastOp, ret, executor, buildVarsButLocal>>

\* audio.py:51-124, for the word or a sentence of row r
RowAudio(r, key, ev, size) ==
    /\ RowFetching(r, key)
    /\ key # "img"
    /\ local[r].tasks[key].st = "new"
    /\ LET o == AudioOutcome(local[r].tasks[key], AudioSource(rows[r], key), ev)
           files == RowFiles(rows[r], r - 1)
           filename == IF key = "word" THEN files.word
                       ELSE IF key = "sent_0" THEN files.sent_1
                       ELSE IF key = "sent_1" THEN files.sent_2
                       ELSE files.sent_3
       IN  /\ local' = [local EXCEPT ![r].tasks[key] = o.task]
           /\ media' = IF o.write THEN Put(media, filename, size) ELSE media
           /\ RowCallback(o.cb)
    /\ UNCHANGED <<cache, _pending_writes, cache_file, now, lastOp, ret, executor, buildVarsButLocal>>

\* builder.py:492-575: gather has every result; the rest of the row
RowFinish(r, exc) ==
    /\ rpc[r] = "fetch"
    /\ MayRaise(exc)
    /\ \A key \in DOMAIN local[r].tasks : Resolved(local[r].tasks[key])
    /\ SetBuilder(FinishRow(Builder, now, rows[r], r - 1, local[r], exc))
    /\ rpc' = [rpc EXCEPT ![r] = "done"]
    /\ outcome' = [outcome EXCEPT ![r] = IF exc = "at_note" THEN "failed" ELSE "card"]
    /\ raised' = [raised EXCEPT ![r] = (exc = "at_note")]
    /\ local' = [local EXCEPT ![r] = IdleLocal]
    /\ semaphore' = release(semaphore)
    /\ UNCHANGED <<trackerVars, media, now, lastOp, ret, executor, rows, has_api_key, bpc,
                   batch_start, interrupted, session, confetti, _total_items, emitted>>

\* ---- build ----

IdleTask == [st |-> "idle", attempt |-> 0, requests |-> 0, wait |-> 0]

\* builder.py:645-648: the process_row tasks of the batch that starts after
\* row number start.
\* Mutant: a batch takes every row that is left.
InBatchToTheEnd(r, start) == r > start

InBatch(r, start) == r > start /\ r <= Min(start + batch_size, NumRows)
Dispatch(start) == [r \in Rows |-> IF InBatch(r, start) THEN "start" ELSE rpc[r]]

\* ---- the events of a build (builder.py:213-227, 630-677) ----

\* builder.py:633-634: "Log at most ~50 progress lines across the build"
LogLines == 50
\* builder.py:635-636: "Emit at most ~100 progress updates across the build"
ProgressUpdates == 100

\* builder.py:634
_log_every(total) == Max(1, total \div LogLines)
\* builder.py:636
_progress_every(total) == Max(1, total \div ProgressUpdates)

\* builder.py:663-669
_should_log_progress(total, index) ==
    \/ total <= 0
    \/ index = 0
    \/ index + 1 = total
    \/ (index + 1) % _log_every(total) = 0

\* builder.py:671-677
_should_emit_progress(total, processed) ==
    \/ total <= 0
    \/ processed = 1
    \/ processed = total
    \/ processed % _progress_every(total) = 0

\* No event has been handed to the callback.
NoEvents == [log |-> 0, progress |-> 0]

\* builder.py:213-227: one event of the given type reaches the callback.
_emit(ev, event_type) == [ev EXCEPT ![event_type] = @ + 1]

\* builder.py:638-639: the two events that open the row phase of a build
\* over a vocabulary of total rows.
EmitBegin(total) ==
    /\ bpc = "idle"
    /\ _total_items = 0
    /\ _total_items' = total
    /\ _processed_items' = 0
    /\ emitted' = _emit(_emit(emitted, "log"), "progress")
    /\ bpc' = "gather"
    /\ UNCHANGED <<rows, has_api_key, batch_start, interrupted, rpc, local, outcome,
                   raised, semaphore, session, confetti, stats, failed_words, deck,
                   media_files>>

\* The events of one row, rows being taken in index order as a build with
\* one slot takes them: the "Processing" line (builder.py:426-427), the
\* warning of _adjust_concurrency when a fetch of the row is answered 429
\* (builder.py:274), the error line of the except block when the row raises
\* before line 543 (builder.py:581), and _update_progress (builder.py:584-590,
\* called at 543 or at 582).
RowEvents(ev, total, index, throttled, fails) ==
    LET line    == IF _should_log_progress(total, index) THEN _emit(ev, "log") ELSE ev
        warned  == IF throttled THEN _emit(line, "log") ELSE line
        errored == IF fails THEN _emit(warned, "log") ELSE warned
        processed == index + 1
    IN  IF total > 0 /\ (_should_emit_progress(total, processed) \/ processed = total)
        THEN _emit(errored, "progress")
        ELSE errored

EmitRow(throttled, fails) ==
    /\ bpc = "gather"
    /\ _processed_items < _total_items
    /\ emitted' = RowEvents(emitted, _total_items, _processed_items, throttled, fails)
    /\ _processed_items' = _processed_items + 1
    /\ UNCHANGED <<rows, has_api_key, bpc, batch_start, interrupted, rpc, local, outcome,
                   raised, semaphore, session, confetti, stats, failed_words, deck,
                   media_files, _total_items>>

\* builder.py:660-661: every row is done; "Build complete" is reported.
EmitEnd ==
    /\ bpc = "gather"
    /\ _total_items > 0
    /\ _processed_items = _total_items
    /\ emitted' = _emit(emitted, "progress")
    /\ bpc' = "done"
    /\ UNCHANGED <<rows, has_api_key, batch_start, interrupted, rpc, local, outcome,
                   raised, semaphore, session, confetti, stats, failed_words, deck,
                   media_files, _total_items, _processed_items>>

\* builder.py:394-395 and 631-649: the end of _download_confetti, the
\* progress counters, and the first batch.  md is the media directory as
\* _download_confetti leaves it.
AfterConfetti(md) ==
    /\ media_files' = IF ConfettiFile \in DOMAIN md
                      THEN Append(media_files, ConfettiFile)
                      ELSE media_files
    /\ _total_items' = Len(rows)
    /\ emitted' = emitted
    /\ _processed_items' = 0
    /\ batch_start' = 0
    /\ rpc' = Dispatch(0)
    /\ bpc' = "gather"

\* Mutant: a vocabulary without rows is taken as read.
ReadableOrEmpty(csv) == csv \in {"ok", "empty"}

\* builder.py:602-626: the file exists, loads without an exception and has
\* rows
Readable(csv) == csv = "ok"

\* builder.py:602-628 and 383-392: build up to its first suspension.
BuildStart(csv, ev) ==
    /\ bpc = "new"
    /\ IF ~Readable(csv)
       THEN /\ bpc' = "returned_false"
            /\ UNCHANGED <<trackerVars, media_files, _total_items, emitted, _processed_items,
                           batch_start, rpc, session, confetti>>
       ELSE IF ConfettiFile \in DOMAIN media
       THEN /\ AfterConfetti(media)
            /\ UNCHANGED <<trackerVars, session, confetti>>
       ELSE LET o == ImageBegin(NewTask, CONFETTI_URL, has_api_key, ev)
            IN  /\ Callback(o.cb)
                /\ session' = IF o.open THEN _get_session(session) ELSE session
                /\ confetti' = o.task
                /\ IF o.open
                   THEN /\ bpc' = "confetti"
                        /\ UNCHANGED <<media_files, _total_items, emitted, _processed_items,
                                       batch_start, rpc>>
                   ELSE AfterConfetti(media)
    /\ UNCHANGED <<cacheVars, rows, has_api_key, interrupted, local, outcome, raised,
                   semaphore, stats, failed_words, deck>>

\* builder.py:383-395 with images.py:97-165: one response to the confetti
\* request; when the fetch is over, build goes on to the first batch.
ConfettiStep(resp) ==
    /\ bpc = "confetti"
    /\ LET o  == ImageOutcome(confetti, resp)
           md == IF o.write THEN Put(media, ConfettiFile, resp.body.len) ELSE media
       IN  /\ media' = md
           /\ Callback(o.cb)
           /\ confetti' = o.task
           /\ IF Resolved(o.task)
              THEN AfterConfetti(md)
              ELSE UNCHANGED <<bpc, media_files, _total_items, emitted, _processed_items,
                               batch_start, rpc>>
    /\ UNCHANGED <<cache, _pending_writes, cache_file, now, lastOp, ret, executor, rows,
                   has_api_key, interrupted, local, outcome, raised, semaphore,
                   session, stats, failed_words, deck>>

\* builder.py:649-652: gather returns when every row of the batch is over.
BatchDone ==
    /\ bpc = "gather"
    /\ \A r \in Rows : InBatch(r, batch_start) => rpc[r] = "done"
    /\ bpc' = "yield"
    /\ UNCHANGED <<trackerVars, cacheVars, rows, has_api_key, batch_start, interrupted,
                   rpc, local, outcome, raised, semaphore, session, confetti, stats,
                   failed_words, deck, media_files, _total_items, emitted, _processed_items>>

\* builder.py:645-649 and 653: the next batch, or the cleanup block
NextBatch ==
    /\ bpc = "yield"
    /\ LET next == batch_start + batch_size
       IN  IF next < Len(rows)
           THEN /\ batch_start' = next
                /\ rpc' = Dispatch(next)
                /\ bpc' = "gather"
           ELSE /\ bpc' = "closing"
                /\ UNCHANGED <<batch_start, rpc>>
    /\ UNCHANGED <<trackerVars, cacheVars, rows, has_api_key, interrupted, local,
                   outcome, raised, semaphore, session, confetti, stats, failed_words,
                   deck, media_files, _total_items, emitted, _processed_items>>

\* builder.py:653-661: the finally block, then the return (or the pending
\* cancellation going on to the caller).
Cleanup ==
    /\ bpc = "closing"
    /\ session' = close(session)
    /\ SetCM(flush(CM))
    /\ bpc' = IF interrupted THEN "raised" ELSE "returned_true"
    /\ UNCHANGED <<trackerVars, media, now, lastOp, ret, executor, rows, has_api_key,
                   batch_start, interrupted, rpc, local, outcome, raised, semaphore,
                   confetti, stats, failed_words, deck, media_files, _total_items, emitted,
                   _processed_items>>

Running(r) == rpc[r] \in {"start", "sleep", "fetch"}

\* The run is interrupted while build is suspended (build_deck.py:39,
\* dashboard.py:875-888): the build task is cancelled.  CancelledError is
\* raised at the await build is suspended in: builder.py:628 has no cleanup
\* block around it; at 649 gather cancels the rows still running (the
\* except clause at 577 does not catch CancelledError, the limiter at 406
\* releases their slots) and the finally block at 653 runs.
Interrupt ==
    /\ ~interrupted
    /\ bpc \in {"confetti", "gather", "yield"}
    /\ interrupted' = TRUE
    /\ bpc' = IF bpc = "confetti" THEN "raised" ELSE "closing"
    /\ confetti' = IF bpc = "confetti" THEN [confetti EXCEPT !.st = "cancelled"] ELSE confetti
    /\ rpc' = [r \in Rows |-> IF Running(r) THEN "done" ELSE rpc[r]]
    /\ outcome' = [r \in Rows |-> IF Running(r) THEN "cancelled" ELSE outcome[r]]
    /\ local' = [r \in Rows |-> IF Running(r) THEN IdleLocal ELSE local[r]]
    /\ semaphore' = semaphore + Cardinality({r \in Rows : rpc[r] = "fetch"})
    /\ UNCHANGED <<trackerVars, cacheVars, rows, has_api_key, batch_start, raised,
                   session, stats, failed_words, deck, media_files, _total_items, emitted,
                   _processed_items>>

\* ---- the state a run starts from ----

\* What an earlier run of the same vocabulary left behind for its first
\* row: nothing; its image and word audio, both recorded and intact; or both
\* recorded, the image file truncated since.
Leftovers == {"first_run", "kept", "truncated"}

LeftLedger(left, files) ==
    IF left = "first_run"
    THEN [kind |-> "absent", data |-> EmptyMap]
    ELSE [kind |-> "json", data |-> Put(Put(EmptyMap, files.image, 0), files.word, 0)]

LeftMedia(left, files) ==
    IF left = "first_run"
    THEN EmptyMap
    ELSE IF left = "kept"
    THEN Put(Put(Put(EmptyMap, files.image, MinImageBytes + 1),
                 files.word, DefaultMinSize + 1),
             ConfettiFile, MinImageBytes + 1)
    ELSE Put(Put(EmptyMap, files.image, DefaultMinSize), files.word, DefaultMinSize + 1)

\* builder.py:153-176: a new AnkiDeckBuilder
BuildInit ==
    /\ rows \in Vocabularies
    /\ has_api_key \in BOOLEAN
    /\ bpc = "new"
    /\ batch_start = 0
    /\ interrupted = FALSE
    /\ rpc = [r \in Rows |-> "idle"]
    /\ local = [r \in Rows |-> IdleLocal]
    /\ outcome = [r \in Rows |-> "none"]
    /\ raised = [r \in Rows |-> FALSE]
    /\ semaphore = CONCURRENCY
    /\ session = NoSession
    /\ confetti = IdleTask
    /\ stats = InitialStats
    /\ failed_words = <<>>
    /\ deck = <<>>
    /\ media_files = <<>>
    /\ _total_items = 0
    /\ emitted = NoEvents
    /\ _processed_items = 0

\* No build is running: the tracker and the ledger are exercised alone.
BuildIdle ==
    /\ rows = [r \in Rows |-> RowKinds[3]]
    /\ has_api_key = FALSE
    /\ bpc = "idle"
    /\ batch_start = 0
    /\ interrupted = FALSE
    /\ rpc = [r \in Rows |-> "idle"]
    /\ local = [r \in Rows |-> IdleLocal]
    /\ outcome = [r \in Rows |-> "none"]
    /\ raised = [r \in Rows |-> FALSE]
    /\ semaphore = CONCURRENCY
    /\ session = NoSession
    /\ confetti = IdleTask
    /\ stats = InitialStats
    /\ failed_words = <<>>
    /\ deck = <<>>
    /\ media_files = <<>>
    /\ _total_items = 0
    /\ emitted = NoEvents
    /\ _processed_items = 0

(***************************************************************************)
(*                           SPECIFICATIONS                                *)
(***************************************************************************)

InitTracker == TrackerInit /\ CacheIdle /\ BuildIdle

Signal ==
    \E status_code \in StatusCodes, is_success \in SuccessFlags :
        /\ RecordOutcome(status_code, is_success)
        /\ UNCHANGED <<cacheVars, buildVars>>

CallbackReturns == EmitReturns /\ UNCHANGED <<cacheVars, buildVars>>

NextTracker == Signal \/ CallbackReturns

SpecTracker == InitTracker /\ [][NextTracker]_vars

InitCache == CacheInit /\ TrackerIdle /\ BuildIdle

LedgerIsCached   == (\E f \in Files : IsCachedCall(f)) /\ UNCHANGED <<trackerVars, buildVars>>
LedgerMarkCached == (\E f \in Files : MarkCachedCall(f)) /\ UNCHANGED <<trackerVars, buildVars>>
LedgerMarkList   == (\E fs \in FileLists : MarkCachedListCall(fs)) /\ UNCHANGED <<trackerVars, buildVars>>
LedgerFlush      == FlushCall /\ UNCHANGED <<trackerVars, buildVars>>
LedgerClear      == ClearCall /\ UNCHANGED <<trackerVars, buildVars>>
LedgerSave       == SaveCall /\ UNCHANGED <<trackerVars, buildVars>>
LedgerReload     == Reload /\ UNCHANGED <<trackerVars, buildVars>>
LedgerMediaWrite == (\E f \in Files, size \in Sizes : MediaWrite(f, size)) /\ UNCHANGED <<trackerVars, buildVars>>
LedgerMediaDelete == (\E f \in Files : MediaDelete(f)) /\ UNCHANGED <<trackerVars, buildVars>>
LedgerTick       == Tick /\ UNCHANGED <<trackerVars, buildVars>>

NextCache ==
    \/ LedgerIsCached
    \/ LedgerMarkCached
    \/ LedgerMarkList
    \/ LedgerFlush
    \/ LedgerClear
    \/ LedgerSave
    \/ LedgerReload
    \/ LedgerMediaWrite
    \/ LedgerMediaDelete
    \/ LedgerTick

SpecCache == InitCache /\ [][NextCache]_vars

\* ---- the ledger called by concurrent coroutines, async variants included ----

InitAsync == CacheIdle /\ TrackerIdle /\ BuildIdle

LedgerSaveAsync  == SaveAsyncCall /\ UNCHANGED <<trackerVars, buildVars>>
LedgerMarkAsync  == (\E f \in Files : MarkCachedAsyncCall(f)) /\ UNCHANGED <<trackerVars, buildVars>>
LedgerExecutorDone ==
    (\E written \in ExecutorWrites : ExecutorDone(written)) /\ UNCHANGED <<trackerVars, buildVars>>

NextAsync ==
    \/ LedgerSaveAsync
    \/ LedgerMarkAsync
    \/ LedgerExecutorDone
    \/ LedgerIsCached
    \/ LedgerMarkCached
    \/ LedgerFlush
    \/ LedgerClear
    \/ LedgerSave
    \/ LedgerTick

SpecAsync == InitAsync /\ [][NextAsync]_vars

\* ---- the events of one build, by vocabulary size ----

\* The vocabulary sizes tried: around the two divisors and their multiples.
MaxItems == 250
ItemCounts == {1, 2, LogLines - 1, LogLines, ProgressUpdates - 1, ProgressUpdates,
               2 * ProgressUpdates - 1, 2 * ProgressUpdates, MaxItems}

InitEmit == TrackerIdle /\ CacheIdle /\ BuildIdle

BuildEmitBegin == (\E total \in ItemCounts : EmitBegin(total)) /\ UNCHANGED <<trackerVars, cacheVars>>
BuildEmitRow ==
    (\E throttled \in BOOLEAN, fails \in BOOLEAN : EmitRow(throttled, fails))
    /\ UNCHANGED <<trackerVars, cacheVars>>
BuildEmitEnd == EmitEnd /\ UNCHANGED <<trackerVars, cacheVars>>

NextEmit ==
    \/ BuildEmitBegin
    \/ BuildEmitRow
    \/ BuildEmitEnd

SpecEmit == InitEmit /\ [][NextEmit]_vars

\* ---- one run of build ----

Init ==
    /\ TrackerIdle
    /\ BuildInit
    /\ \E left \in Leftovers :
          LET files == RowFiles(EarlierRun[1], 0)
          IN  /\ cache_file = LeftLedger(left, files)
              /\ cache = NewCacheManager(cache_file).cache
              /\ _pending_writes = NewCacheManager(cache_file)._pending_writes
              /\ media = LeftMedia(left, files)
    /\ now = 1
    /\ lastOp = <<"init", "">>
    /\ ret = FALSE
    /\ executor = ExecutorIdle

Next ==
    \/ \E csv \in {"missing", "unreadable", "empty", "ok"}, ev \in {"opened", "raise"} :
          BuildStart(csv, ev)
    \/ \E resp \in Responses : ConfettiStep(resp)
    \/ \E r \in Rows : RowStart(r)
    \/ \E r \in Rows, exc \in {"none", "before_count", "after_count", "at_note"} :
          RowEnter(r, exc)
    \/ \E r \in Rows, ev \in {"opened", "raise"} : RowImageBegin(r, ev)
    \/ \E r \in Rows, resp \in Responses : RowImageStep(r, resp)
    \/ \E r \in Rows, key \in {"word", "sent_0", "sent_1", "sent_2"},
          ev \in AudioEvents, size \in AudioSizes : RowAudio(r, key, ev, size)
    \/ \E r \in Rows, exc \in {"none", "at_note"} : RowFinish(r, exc)
    \/ BatchDone
    \/ NextBatch
    \/ Cleanup
    \/ Interrupt

Spec == Init /\ [][Next]_vars

(***************************************************************************)
(*                    CLAIMS ABOUT THE TRACKER                             *)
(***************************************************************************)

\* A step that is one call of _adjust_concurrency.
IsCall == calls' = calls + 1
\* ... made with a throttling status
IsThrottleCall == IsCall /\ lastCall'[1] = 429
\* ... made with a clear-success status (< 400)
IsSuccessCall == IsCall /\ lastCall'[1] # NoStatus /\ lastCall'[1] < 400

\* The delay the specification and the comment at builder.py:290 give for a
\* failure streak: 0 s, then 0.5 s, 1 s, 2 s, 4 s, then the 10 s cap.
DocumentedBackoff(failures) ==
    IF failures = 0 THEN 0
    ELSE IF failures <= 4 THEN 500 * Pow2(failures - 1)
    ELSE 10000

\* C7: the backoff delay is 0 s at zero failures, then 0.5 s, 1 s, 2 s, 4 s as
\* the failure streak grows, and 10 s from then on.
C7_BackoffAsDocumented ==
    _get_backoff_delay(adaptive_stats)
        = DocumentedBackoff(adaptive_stats.consecutive_failures)

\* C8: a throttle signal never decreases the backoff delay.
C8_ThrottleNeverDecreasesBackoff ==
    [][IsThrottleCall =>
          _get_backoff_delay(adaptive_stats') >= _get_backoff_delay(adaptive_stats)]_vars

\* Five throttle signals in a row: the delay has risen to its plateau.
C8_Witness ==
    /\ calls = 5
    /\ throttles = 5
    /\ lastCall[1] = 429
    /\ _get_backoff_delay(adaptive_stats) = 8000

\* C9: a clear-success outcome sets the failure streak to 0 and extends the
\* success streak by 1, so the backoff delay is 0 afterwards.
C9_SuccessResetsFailures ==
    [][IsSuccessCall =>
          /\ adaptive_stats'.consecutive_failures = 0
          /\ adaptive_stats'.consecutive_success
                = adaptive_stats.consecutive_success + 1
          /\ _get_backoff_delay(adaptive_stats') = 0]_vars

\* Three throttles, then one success: the streak of 3 has been reset.
C9_Witness ==
    /\ calls = 4
    /\ throttles = 3
    /\ lastCall = <<200, "True">>
    /\ adaptive_stats.consecutive_failures = 0
    /\ adaptive_stats.consecutive_success = 1

\* C10: a throttle signal extends the failure streak by 1, resets the success
\* streak, sets the throttled flag and increments the adjustment counter; no
\* other outcome changes the adjustment counter, which therefore never
\* decreases and equals the number of throttle signals recorded.
C10_ThrottleAccounting ==
    /\ [][IsThrottleCall =>
            /\ adaptive_stats'.consecutive_failures
                  = adaptive_stats.consecutive_failures + 1
            /\ adaptive_stats'.consecutive_success = 0
            /\ adaptive_stats'.last_status_429
            /\ adaptive_stats'.concurrency_adjustments
                  = adaptive_stats.concurrency_adjustments + 1]_vars
    /\ [][(IsCall /\ ~IsThrottleCall) =>
            adaptive_stats'.concurrency_adjustments
                = adaptive_stats.concurrency_adjustments]_vars
    /\ [][adaptive_stats'.concurrency_adjustments
            >= adaptive_stats.concurrency_adjustments]_vars
    /\ [](adaptive_stats.concurrency_adjustments = throttles)

\* Throttles interleaved with plain failures and a success.
C10_Witness ==
    /\ throttles = 2
    /\ calls >= 5
    /\ lastCall[1] = 429
    /\ adaptive_stats.concurrency_adjustments = 2
    /\ adaptive_stats.consecutive_failures = 2
    /\ adaptive_stats.last_status_429

(***************************************************************************)
(*                    CLAIMS ABOUT THE CACHE LEDGER                        *)
(***************************************************************************)

\* The media file of that name exists and is larger than 500 bytes.
LargerThanMinimum(f) == f \in DOMAIN media /\ media[f] > 500

\* C4: is_cached(f) returns true exactly when the ledger has an entry for f,
\* the file exists in the media directory and its size is strictly greater
\* than 500 bytes.
C4_IsCachedIff ==
    [][\A f \in Files :
          IsCachedCall(f) =>
              (ret' = (f \in DOMAIN cache /\ f \in DOMAIN media /\ media[f] > 500))]_vars

\* is_cached("img") has returned true for a 501-byte file.
C4_Witness ==
    /\ lastOp = <<"is_cached", "img">>
    /\ ret = TRUE
    /\ "img" \in DOMAIN cache
    /\ "img" \in DOMAIN media
    /\ media["img"] = 501

MarkThenFlush(f) == flush(mark_cached(CM, now, f))

FailedRows == {r \in Rows : raised[r]}
NotesOf(r) == {i \in 1..Len(deck) : deck[i].index = r - 1}
Ended == bpc \in {"returned_true", "returned_false", "raised"}

\* C1: an exception raised while a row is processed is caught by
\* process_row: the row ends as failed, rows_failed grows by exactly 1, the
\* first 50 characters of the row's word are recorded, no card is added for
\* the row, and the failure reaches neither the other rows nor build: build
\* propagates nothing unless the run is interrupted, and a build that
\* returns True has taken every row to its end.
C1_RowFailureContained ==
    /\ [](/\ \A r \in FailedRows : outcome[r] = "failed" /\ NotesOf(r) = {}
          /\ stats.rows_failed = Cardinality(FailedRows)
          /\ Len(failed_words) = Cardinality(FailedRows)
          /\ \A i \in 1..Len(failed_words) : Len(failed_words[i]) <= FailedWordLength
          /\ bpc = "raised" => interrupted
          /\ bpc = "returned_true" =>
                \A r \in Rows : outcome[r] \in {"skipped", "card", "failed"})
    /\ [][\A r \in Rows :
            (raised'[r] /\ ~raised[r]) =>
                /\ stats'.rows_failed = stats.rows_failed + 1
                /\ failed_words' =
                      Append(failed_words, Truncate(rows[r].TargetWord, FailedWordLength))
                /\ deck' = deck
                /\ rpc'[r] = "done"
                /\ \A q \in Rows \ {r} : rpc'[q] = rpc[q] /\ outcome'[q] = outcome[q]
                /\ bpc' = bpc]_vars

\* The first row, with the 52-character word, raised; the build went on and
\* returned True with the card of the third row, which is in the next batch.
C1_Witness ==
    /\ bpc = "returned_true"
    /\ raised[1]
    /\ rows[1].TargetWord = LongWord
    /\ failed_words = <<Truncate(LongWord, FailedWordLength)>>
    /\ Len(failed_words[1]) = FailedWordLength
    /\ stats.rows_failed = 1
    /\ outcome[3] = "card"
    /\ NotesOf(3) # {}

Inside == {r \in Rows : rpc[r] = "fetch"}

\* C2: at every moment the rows inside the limiter-protected section of
\* process_row number at most Config.CONCURRENCY, and the limiter's free
\* slots are the capacity less those rows.
C2_LimiterBound ==
    /\ Cardinality(Inside) <= CONCURRENCY
    /\ semaphore = CONCURRENCY - Cardinality(Inside)

\* Every slot is taken and another row of the batch waits for one.
C2_Witness ==
    /\ Cardinality(Inside) = CONCURRENCY
    /\ semaphore = 0
    /\ \E r \in Rows : rpc[r] = "sleep"

\* C3: whenever build has returned or propagated, the image fetcher holds
\* no open session and the ledger has no pending writes.
C3_CleanupOnEveryExit ==
    Ended => session.st # "open" /\ _pending_writes = EmptyBag


\* Rows with an image prompt, and the audio items (the word and each
\* sentence) that have source text.
RowsWithImagePrompt == {r \in Rows : Strip(rows[r].ImagePrompt) # <<>>}
AudioItems ==
    {<<r, 0>> : r \in {q \in Rows : Strip(rows[q].TargetWord) # <<>>}}
        \cup {x \in Rows \X (1..3) : rows[x[1]].sentences[x[2]] # NoText}

\* C11: at the end of a run in which no row raised, images_success +
\* images_failed is the number of rows with a non-empty image prompt, and
\* the audio success and failure counters sum to the number of audio items
\* with non-empty source text.
C11_StatisticsConservation ==
    (bpc = "returned_true" /\ FailedRows = {}) =>
        /\ stats.images_success + stats.images_failed = Cardinality(RowsWithImagePrompt)
        /\ stats.audio_word_success + stats.audio_word_failed
              + stats.audio_sent_success + stats.audio_sent_failed = Cardinality(AudioItems)

InFlight == {r \in Rows : Running(r)}

\* C12: build dispatches the rows in consecutive batches of at most
\* batch_size: the row tasks in flight all belong to the current batch and
\* number at most batch_size, every row of an earlier batch is over, and no
\* row of a later batch has started.
C12_BatchesInSequence ==
    /\ Cardinality(InFlight) <= batch_size
    /\ \A r \in InFlight : InBatch(r, batch_start)
    /\ \A r \in Rows : r <= batch_start => rpc[r] = "done"
    /\ \A r \in Rows : r > batch_start + batch_size => rpc[r] = "idle"

\* The second batch is in flight after the first one has completed.
C12_Witness ==
    /\ bpc = "gather"
    /\ batch_start = batch_size
    /\ InFlight # {}
    /\ \A r \in Rows : r <= batch_size => rpc[r] = "done" /\ outcome[r] # "cancelled"

\* The file the earlier run generated for medium key of the row it had at
\* position p.
EarlierFile(p, key) ==
    LET files == RowFiles(EarlierRun[p], p - 1)
    IN  IF key = "img" THEN files.image
        ELSE IF key = "word" THEN files.word
        ELSE IF key = "sent_0" THEN files.sent_1
        ELSE IF key = "sent_1" THEN files.sent_2
        ELSE files.sent_3

\* C13: a row whose content the earlier run had (at whatever position the
\* shuffle gave it then) has the filenames it had in the earlier run, so it
\* does not fetch a medium that the earlier run generated for that content
\* and that is_cached accepts.
C13_RerunFindsCachedMedia ==
    \A r \in Rows, p \in Rows :
        (rows[r] = EarlierRun[p] /\ rpc[r] = "fetch") =>
            \A key \in DOMAIN local[r].tasks :
                ~is_cached(CM, media, EarlierFile(p, key), DefaultMinSize).ret

\* The largest row index the identifier is computed for in C14.
MaxIndex == 11

FetchFailed(r, key) ==
    key \in DOMAIN local[r].tasks /\ local[r].tasks[key].st \in {"fail", "exc"}

CardOf(r) == deck[CHOOSE n \in NotesOf(r) : TRUE]

\* C15: a row whose fetches are over, and in which no exception is raised,
\* ends with a card, whatever the fetches returned: the card's field is
\* empty for every medium whose fetch failed or raised, rows_failed is
\* unchanged, and no other row is touched.
C15_FetchFailureKeepsCard ==
    [][\A r \in Rows :
          (rpc[r] = "fetch" /\ rpc'[r] = "done" /\ ~raised'[r] /\ ~interrupted') =>
              /\ outcome'[r] = "card"
              /\ deck' # deck /\ deck = SubSeq(deck', 1, Len(deck))
              /\ LET note == deck'[Len(deck')]
                 IN  /\ note.index = r - 1
                     /\ FetchFailed(r, "img") => note.Image = <<>>
                     /\ FetchFailed(r, "word") => note.AudioWord = <<>>
                     /\ \A i \in 1..3 :
                           FetchFailed(r, SentKeys[i]) => note.Audio_Sent[i] = <<>>
              /\ stats'.rows_failed = stats.rows_failed
              /\ \A q \in Rows \ {r} :
                    rpc'[q] = rpc[q] /\ outcome'[q] = outcome[q] /\ local'[q] = local[q]]_vars

\* With an API key, a row with an image prompt has a card without image and
\* without audio: both its fetches failed.  No row failed, and another row
\* of the same batch has a card with its word audio.
C15_Witness ==
    /\ has_api_key
    /\ stats.rows_failed = 0
    /\ \E r \in Rows, q \in Rows :
          /\ r # q /\ r <= batch_size /\ q <= batch_size
          /\ rows[r].ImagePrompt = Prompt
          /\ outcome[r] = "card" /\ outcome[q] = "card"
          /\ CardOf(r).Image = <<>> /\ CardOf(r).AudioWord = <<>>
          /\ CardOf(q).AudioWord # <<>>

HasImageTask(r) == rpc[r] = "fetch" /\ "img" \in DOMAIN local[r].tasks
ImageTask(r) == local[r].tasks["img"]

\* C16: an image fetch sends at most RETRIES requests and then ends: every
\* response either ends the fetch or uses up one attempt, a fetch under way
\* never ends with an exception, and once the attempts are used up the
\* fetch returns failure.
C16_ImageFetchBounded ==
    /\ [](/\ confetti.requests <= RETRIES /\ confetti.attempt <= RETRIES
          /\ \A r \in Rows :
                HasImageTask(r) =>
                    ImageTask(r).requests <= RETRIES /\ ImageTask(r).attempt <= RETRIES)
    /\ [][\A r \in Rows :
            (/\ HasImageTask(r) /\ ImageTask(r).st = "run"
             /\ rpc'[r] = "fetch" /\ local'[r] # local[r]) =>
                LET before == ImageTask(r)
                    after  == local'[r].tasks["img"]
                IN  after # before =>
                        /\ after.st \in {"run", "ok", "fail"}
                        /\ after.st = "run" =>
                              /\ after.attempt = before.attempt + 1
                              /\ after.requests = before.requests + 1
                        /\ before.attempt = RETRIES =>
                              after.st = "fail" /\ after.requests = before.requests]_vars

\* Every attempt of a row's image fetch failed and the fetch returned
\* failure after RETRIES requests.
C16_Witness ==
    \E r \in Rows :
        /\ HasImageTask(r)
        /\ ImageTask(r).st = "fail"
        /\ ImageTask(r).attempt = RETRIES
        /\ ImageTask(r).requests = RETRIES

Unauthorized == [status |-> 401, body |-> EmptyBody]

\* C17: a 401 response to a request of a row's image fetch ends that fetch
\* at once as a failure: no further attempt, no wait; the row's other
\* fetches, the other rows and the build stand as they stood and go on.
C17_UnauthorizedAborts ==
    [][\A r \in Rows :
          (/\ HasImageTask(r) /\ ImageTask(r).st = "run"
           /\ ImageTask(r).attempt < RETRIES
           /\ RowImageStep(r, Unauthorized)) =>
              LET before == ImageTask(r)
                  after  == local'[r].tasks["img"]
              IN  /\ after.st = "fail"
                  /\ after.attempt = before.attempt
                  /\ after.requests = before.requests + 1
                  /\ after.wait = 0
                  /\ \A key \in DOMAIN local[r].tasks \ {"img"} :
                        local'[r].tasks[key] = local[r].tasks[key]
                  /\ rpc' = rpc /\ bpc' = bpc /\ outcome' = outcome
                  /\ stats' = stats]_vars

\* The first request of a row's image fetch met a 401: the fetch is over
\* after one request, while the row's word audio is still to be fetched.
C17_Witness ==
    \E r \in Rows :
        /\ HasImageTask(r)
        /\ ImageTask(r) = [st |-> "fail", attempt |-> 0, requests |-> 1, wait |-> 0]
        /\ "word" \in DOMAIN local[r].tasks
        /\ local[r].tasks["word"].st = "new"

Throttled == [status |-> 429, body |-> EmptyBody]

\* C18: each 429 response to a request of a row's image fetch is reported
\* to the tracker once as a throttle (the adjustment counter grows by 1)
\* and is followed by a wait of 5 * 2^attempt seconds before the next
\* attempt; no other response to an image request moves the adjustment
\* counter; and a row that ends with its image fetched counts one image
\* success.  So a fetch that meets k throttles and then succeeds raises the
\* counter by k and counts as one success.
C18_ThrottleReportedAndWaited ==
    /\ [][\A r \in Rows :
            (/\ HasImageTask(r) /\ ImageTask(r).st = "run"
             /\ ImageTask(r).attempt < RETRIES
             /\ RowImageStep(r, Throttled)) =>
                LET before == ImageTask(r)
                    after  == local'[r].tasks["img"]
                IN  /\ adaptive_stats'.concurrency_adjustments =
                          adaptive_stats.concurrency_adjustments + 1
                    /\ adaptive_stats'.last_status_429
                    /\ after.st = "run"
                    /\ after.attempt = before.attempt + 1
                    /\ after.wait = 5 * Pow2(before.attempt)]_vars
    /\ [][\A r \in Rows, resp \in Responses \ {Throttled} :
            RowImageStep(r, resp) =>
                adaptive_stats'.concurrency_adjustments =
                    adaptive_stats.concurrency_adjustments]_vars
    /\ [][\A r \in Rows :
            (/\ HasImageTask(r) /\ ImageTask(r).st = "ok"
             /\ rpc'[r] = "done" /\ ~interrupted') =>
                stats'.images_success = stats.images_success + 1]_vars

\* The first fetch of the run is a row's image fetch: it met one 429 and
\* then succeeded, and the adjustment counter stands at 1.
C18_Witness ==
    \E r \in Rows :
        /\ HasImageTask(r)
        /\ ImageTask(r) = [st |-> "ok", attempt |-> 1, requests |-> 2, wait |-> 0]
        /\ adaptive_stats.concurrency_adjustments = 1
        /\ confetti.requests = 0
        /\ local[r].tasks["word"].st = "new"
        /\ \A q \in Rows \ {r} : rpc[q] \in {"idle", "start", "sleep"}

\* C19: every fetch reports its outcome through the shared callback: the
\* step in which a fetch returns success reports one success (the count of
\* consecutive successes grows by 1), and the step in which a fetch returns
\* failure reports a failure (the count of consecutive failures grows by 1).
C19_EveryOutcomeReported ==
    [][\A r \in Rows :
        (rpc[r] = "fetch" /\ rpc'[r] = "fetch") =>
            \A key \in DOMAIN local[r].tasks :
                ~Resolved(local[r].tasks[key]) =>
                    /\ local'[r].tasks[key].st = "ok" =>
                          adaptive_stats'.consecutive_success =
                              adaptive_stats.consecutive_success + 1
                    /\ local'[r].tasks[key].st = "fail" =>
                          adaptive_stats'.consecutive_failures =
                              adaptive_stats.consecutive_failures + 1]_vars

\* The signatures of the four image formats: JPEG FF D8 FF, PNG 89 "PNG",
\* GIF "GIF8", and WebP "RIFF" followed by four bytes of size and "WEBP".
HasImageSignature(content) ==
    \/ StartsWith(content, <<"FF", "D8", "FF">>)
    \/ StartsWith(content, <<"89", "P", "N", "G">>)
    \/ StartsWith(content, <<"G", "I", "F", "8">>)
    \/ /\ StartsWith(content, <<"R", "I", "F", "F">>)
       /\ Len(content.head) >= 12
       /\ SubSeq(content.head, 9, 12) = <<"W", "E", "B", "P">>

\* C20: the body of a 200 response to an image request is accepted (written
\* to the image's path, the fetch returning success) if and only if it
\* begins with the signature of a JPEG, PNG, WebP or GIF image and is
\* longer than MinImageBytes bytes.
C20_OnlyImagesAccepted ==
    [][\A r \in Rows, resp \in Responses :
        (/\ resp.status = 200
         /\ HasImageTask(r) /\ ImageTask(r).st = "run"
         /\ ImageTask(r).attempt < RETRIES
         /\ RowImageStep(r, resp)) =>
            LET taken == /\ local'[r].tasks["img"].st = "ok"
                         /\ media' = Put(media, RowFiles(rows[r], r - 1).image,
                                         resp.body.len)
            IN  taken <=> (/\ HasImageSignature(resp.body)
                           /\ resp.body.len > MinImageBytes)]_vars

\* audio.py:65-72: the texts on which AudioFetcher.fetch returns at once
EmptyForTts(text) == Strip(text) = <<>> \/ clean_text(text) = <<>>

\* The sentences of row r whose fetch was queued and did not succeed, and
\* whose text is left non-empty by cleaning.
FailedSentences(r) ==
    {i \in 1..3 : /\ SentKeys[i] \in DOMAIN local[r].tasks
                  /\ local[r].tasks[SentKeys[i]].st # "ok"
                  /\ ~EmptyForTts(rows[r].sentences[i])}

\* C21: an audio fetch on a text that is empty, or empty after cleaning,
\* calls no synthesis and writes no file, and the item is skipped, not
\* failed: when the row ends, the audio-failed statistics grow only by the
\* failed fetches whose text was not empty after cleaning.
C21_EmptyTextIsSkipped ==
    /\ [][\A r \in Rows :
            (rpc[r] = "fetch" /\ rpc'[r] = "fetch") =>
                \A key \in DOMAIN local[r].tasks \ {"img"} :
                    (/\ EmptyForTts(AudioSource(rows[r], key))
                     /\ local[r].tasks[key].st = "new"
                     /\ local'[r].tasks[key].st # "new") =>
                        /\ local'[r].tasks[key].requests = 0
                        /\ media' = media]_vars
    /\ [][\A r \in Rows :
            (rpc[r] = "fetch" /\ rpc'[r] = "done" /\ ~interrupted') =>
                /\ stats'.audio_sent_failed =
                      stats.audio_sent_failed + Cardinality(FailedSentences(r))
                /\ stats'.audio_word_failed =
                      stats.audio_word_failed +
                          (IF /\ ~local[r].has_w
                              /\ local[r].tasks["word"].st # "ok"
                              /\ ~EmptyForTts(AudioSource(rows[r], "word"))
                           THEN 1 ELSE 0)]_vars

C23_EmitNeverBlocks ==
    (emitting /\ calls < MaxSignals) => ENABLED Signal

\* C24: the mutating operations of the ledger exclude one another, the
\* async variants included: while a _save_internal started by save_async or
\* mark_cached_async is serializing the map, no operation changes the map
\* or the pending buffer.
C24_MutatorsExclusive ==
    [][(executor.st = "saving" /\ executor'.st = "saving") =>
            (cache' = cache /\ _pending_writes' = _pending_writes)]_vars

\* Image fetches that have passed _get_session and are not over.
ImageFetchesUnderWay ==
    {r \in Rows : HasImageTask(r) /\ ImageTask(r).st = "run"}

C26_EventsBounded ==
    /\ emitted.log <= 2 * LogLines + 2
    /\ emitted.progress <= 2 * ProgressUpdates + 2

\* C27: a row that has taken a limiter slot gives it back on every way out
\* of process_row (the skip of an empty word, the normal end, an exception,
\* a cancellation): a step in which rows leave the protected section
\* raises the free capacity by their number, so whenever no row is inside,
\* and so once every row of the build is over, the free capacity is the
\* initial capacity and a row that waits for a slot is admitted.
Leaving == {r \in Rows : rpc[r] = "fetch" /\ rpc'[r] # "fetch"}
Entering == {r \in Rows : rpc[r] # "fetch" /\ rpc'[r] = "fetch"}
C27_SlotAlwaysReleased ==
    /\ [][semaphore' = semaphore + Cardinality(Leaving) - Cardinality(Entering)]_vars
    /\ []((\A r \in Rows : rpc[r] # "fetch") =>
             /\ semaphore = CONCURRENCY
             /\ SlotFree(semaphore))
    /\ []((bpc \in {"yield", "closing"} \/ Ended) => semaphore = CONCURRENCY)

\* The build has returned True with the limiter at its initial capacity
\* after rows that left on each path: an empty word skipped, a card added,
\* and a row that raised after its fetches, while it held the slot.
C27_Witness ==
    /\ bpc = "returned_true"
    /\ semaphore = CONCURRENCY
    /\ \E r \in Rows : outcome[r] = "skipped"
    /\ \E r \in Rows : outcome[r] = "card"
    /\ \E r \in Rows : /\ outcome[r] = "failed"
                       /\ rows[r].TargetWord = LongWord
                       /\ stats.audio_sent_success >= 1

\* C28: the delay a row serves reflects every outcome recorded before the
\* row takes its slot and dispatches its fetches: a row that goes from
\* waiting into the protected section has served at least the delay the
\* tracker asks for at that moment, so throttling recorded while the row
\* waited has slowed it down.
C28_BackoffCurrentAtDispatch ==
    [][\A r \in Rows :
          (rpc[r] = "sleep" /\ rpc'[r] = "fetch") =>
              local[r].backoff >= _get_backoff_delay(adaptive_stats)]_vars

\* C29: process_row reads and serves the backoff delay strictly before it
\* takes the limiter slot.  The delay of a row is read in a step that leaves
\* the limiter and the rows inside as they are, by a row that holds no slot;
\* a row takes a slot only after that step; a row that holds a slot is
\* suspended on fetches of its own, and the only steps it makes before it
\* leaves are steps of those fetches.
C29_BackoffBeforeSlot ==
    /\ [][\A r \in Rows :
            (local'[r].backoff # local[r].backoff /\ rpc'[r] # "done") =>
                /\ rpc[r] = "start" /\ rpc'[r] = "sleep"
                /\ semaphore' = semaphore
                /\ semaphore = CONCURRENCY - Cardinality(Inside)]_vars
    /\ [][\A r \in Rows :
            (rpc[r] # "fetch" /\ rpc'[r] = "fetch") => rpc[r] = "sleep"]_vars
    /\ [](\A r \in Rows : rpc[r] = "fetch" => DOMAIN local[r].tasks # {})
    /\ [][\A r \in Rows :
            (rpc[r] = "fetch" /\ rpc'[r] = "fetch" /\ local'[r] # local[r]) =>
                \E key \in DOMAIN local[r].tasks :
                    /\ ~Resolved(local[r].tasks[key])
                    /\ local'[r] = [local[r] EXCEPT !.tasks[key] = local'[r].tasks[key]]]_vars

\* A row that read and served a positive delay holds the slot and waits
\* for its fetches.
C29_Witness ==
    \E r \in Rows :
        /\ rpc[r] = "fetch"
        /\ local[r].backoff > 0
        /\ \E key \in DOMAIN local[r].tasks : ~Resolved(local[r].tasks[key])

\* C30: within a row the queued fetches are independent and the row is
\* finished only when all of them are over.  A step of one fetch changes no
\* other fetch, of the row or of another row; a fetch that has returned or
\* raised keeps its result, whatever its siblings do afterwards, and a fetch
\* still under way goes on after a sibling failed or raised; and the
\* statistics of the media (builder.py:505-524), the entries marked in the
\* ledger, the media list and the deck change only in a step of build itself
\* or in a step that finishes a row all of whose queued fetches are over
\* (returned True, returned False or raised).
Over(task) == task.st \in {"ok", "fail", "exc"}
Fetches(r) == IF rpc[r] = "fetch" THEN DOMAIN local[r].tasks ELSE {}
StepsOf(r) ==
    {key \in Fetches(r) : rpc'[r] = "fetch" /\ local'[r].tasks[key] # local[r].tasks[key]}
MediaStats(s) ==
    [k \in {"images_success", "images_failed", "audio_word_success",
            "audio_word_failed", "audio_sent_success", "audio_sent_failed"} |-> s[k]]
Marking == \E f \in DOMAIN cache' : f \notin DOMAIN cache \/ cache'[f] # cache[f]
C30_FetchesIndependent ==
    /\ [][\A r \in Rows : \A key \in StepsOf(r) :
            /\ ~Over(local[r].tasks[key])
            /\ StepsOf(r) = {key}
            /\ \A q \in Rows \ {r} : StepsOf(q) = {} /\ rpc'[q] = rpc[q]]_vars
    /\ [][\A r \in Rows :
            (rpc[r] = "fetch" /\ rpc'[r] = "fetch") =>
                DOMAIN local'[r].tasks = DOMAIN local[r].tasks]_vars
    /\ [][(MediaStats(stats') # MediaStats(stats) \/ deck' # deck
             \/ media_files' # media_files \/ Marking) =>
            \/ bpc' # bpc
            \/ \E r \in Rows :
                  /\ rpc[r] \in {"sleep", "fetch"}
                  /\ rpc'[r] = "done"
                  /\ \A key \in Fetches(r) : Over(local[r].tasks[key])]_vars
    /\ [][\A r \in Rows :
            (rpc[r] = "fetch" /\ rpc'[r] = "done" /\ ~interrupted') =>
                \A key \in Fetches(r) : Over(local[r].tasks[key])]_vars

\* The image fetch of a row raised; the word audio of the same row, queued
\* with it, has been fetched all the same, and the row still waits in
\* gather.
C30_Witness ==
    \E r \in Rows :
        /\ rpc[r] = "fetch"
        /\ {"img", "word"} \subseteq DOMAIN local[r].tasks
        /\ local[r].tasks["img"].st = "exc"
        /\ local[r].tasks["word"].st = "ok"

\* C31: process_row dispatches a fetch for a media item only if the ledger
\* lookup for its file returned false, and for a sentence only if the
\* sentence is not empty.  When a row enters gather, every queued fetch is
\* for a file the ledger did not hold with a valid file on disk; a file it
\* did hold is taken as there (has_img, has_w, sentence_results) and has no
\* fetch, and stays without one for as long as the row is in gather.
MediaKeys == {"img", "word", "sent_0", "sent_1", "sent_2"}
KeyFile(r, key) ==
    LET files == RowFiles(rows[r], r - 1)
    IN  IF key = "img" THEN files.image
        ELSE IF key = "word" THEN files.word
        ELSE IF key = "sent_0" THEN files.sent_1
        ELSE IF key = "sent_1" THEN files.sent_2
        ELSE files.sent_3
KeySentence(r, key) ==
    IF key = "sent_0" THEN rows[r].sentences[1]
    ELSE IF key = "sent_1" THEN rows[r].sentences[2]
    ELSE rows[r].sentences[3]
LedgerHolds(f) == f \in DOMAIN cache /\ f \in DOMAIN media /\ media[f] > DefaultMinSize
TakenAsThere(loc, key) ==
    IF key = "img" THEN loc.has_img
    ELSE IF key = "word" THEN loc.has_w
    ELSE IF key = "sent_0" THEN loc.sentence_results[1]
    ELSE IF key = "sent_1" THEN loc.sentence_results[2]
    ELSE loc.sentence_results[3]
C31_FetchOnlyOnMiss ==
    /\ [][\A r \in Rows :
            (rpc[r] = "sleep" /\ rpc'[r] = "fetch") =>
                \A key \in MediaKeys :
                    /\ key \in DOMAIN local'[r].tasks =>
                          /\ ~LedgerHolds(KeyFile(r, key))
                          /\ key \notin {"img", "word"} => KeySentence(r, key) # NoText
                    /\ (LedgerHolds(KeyFile(r, key))
                          /\ (key \in {"img", "word"} \/ KeySentence(r, key) # NoText)) =>
                          /\ key \notin DOMAIN local'[r].tasks
                          /\ TakenAsThere(local'[r], key)]_vars
    /\ [](\A r \in Rows : \A key \in MediaKeys :
            (rpc[r] = "fetch" /\ TakenAsThere(local[r], key)) =>
                key \notin DOMAIN local[r].tasks)

\* The ledger held the word audio of the first row, intact on disk, but not
\* a valid image: the row waits for its image fetch alone.
C31_Witness ==
    /\ rpc[1] = "fetch"
    /\ local[1].has_w
    /\ DOMAIN local[1].tasks = {"img"}
    /\ KeyFile(1, "word") \in DOMAIN cache

\* C32: a row whose target word is empty after trimming takes one progress
\* tick and changes nothing else.  The step in which such a row leaves
\* process_row without an exception or a cancellation raises
\* _processed_items by one and leaves the statistics, the failed words, the
\* ledger (memory, pending writes and file), the media directory and list,
\* the tracker, the deck and the limiter as they were; the row never has a
\* fetch and never a note.
EmptyWord(r) == \A i \in 1..Len(rows[r].TargetWord) : rows[r].TargetWord[i] = " "
C32_EmptyRowOnlyTicks ==
    /\ [][\A r \in Rows :
            (EmptyWord(r) /\ rpc[r] = "sleep" /\ rpc'[r] = "done"
                /\ ~raised'[r] /\ ~interrupted') =>
                /\ _processed_items' = _processed_items + 1
                /\ stats' = stats
                /\ failed_words' = failed_words
                /\ cache' = cache
                /\ _pending_writes' = _pending_writes
                /\ cache_file' = cache_file
                /\ media' = media
                /\ media_files' = media_files
                /\ adaptive_stats' = adaptive_stats
                /\ deck' = deck
                /\ semaphore' = semaphore
                /\ local'[r].tasks = EmptyMap]_vars
    /\ [](\A r \in Rows : EmptyWord(r) => rpc[r] # "fetch" /\ NotesOf(r) = {})

\* The row with the blank word was the first to be taken: it is over,
\* progress stands at one, and nothing else has been touched.
C32_Witness ==
    \E r \in Rows :
        /\ EmptyWord(r)
        /\ rpc[r] = "done"
        /\ ~raised[r]
        /\ ~interrupted
        /\ _processed_items = 1
        /\ stats = InitialStats
        /\ deck = <<>>

\* C33: only freshly fetched media are marked cached by process_row.  When
\* a row leaves gather, every media item that the ledger lookup had found
\* cached (has_img, has_w or sentence_results set at the lookup) keeps its
\* ledger entry, and no write is queued for it.
C33_CachedNotRemarked ==
    [][\A r \in Rows :
          (rpc[r] = "fetch" /\ rpc'[r] = "done" /\ ~interrupted') =>
              \A key \in MediaKeys :
                  TakenAsThere(local[r], key) =>
                      /\ KeyFile(r, key) \in DOMAIN cache'
                      /\ cache'[KeyFile(r, key)] = cache[KeyFile(r, key)]
                      /\ CopiesIn(KeyFile(r, key), _pending_writes')
                            <= CopiesIn(KeyFile(r, key), _pending_writes)]_vars

\* C34: between ledger operations fewer than _batch_size changes are
\* pending.  A mark_cached (of one name or of a list) or an evicting
\* is_cached that brings the pending count to _batch_size or more writes the
\* whole in-memory ledger to the file and empties the buffer within the
\* same call; one that does not leaves the file as it was.
Written == cache_file' = [kind |-> "json", data |-> cache'] /\ _pending_writes' = EmptyBag
BatchRule(added) ==
    IF BagCardinality(_pending_writes) + added >= _batch_size
    THEN Written
    ELSE /\ cache_file' = cache_file
         /\ BagCardinality(_pending_writes') = BagCardinality(_pending_writes) + added
C35_LimiterUntouchedByOutcomes ==
    /\ [][adaptive_stats' # adaptive_stats =>
            /\ semaphore' = semaphore
            /\ Leaving = {}
            /\ Entering = {}]_vars
    /\ [](semaphore + Cardinality(Inside) = CONCURRENCY)
    /\ [][\A r \in Rows :
            local'[r].backoff # local[r].backoff =>
                \/ local'[r].backoff = _get_backoff_delay(adaptive_stats)
                \/ rpc'[r] = "done"]_vars

\* After a 429 the tracker asks for a delay; a row that read and served it
\* holds a slot of the limiter, whose capacity is what it was.
C35_Witness ==
    /\ adaptive_stats.last_status_429
    /\ \E r \in Rows : rpc[r] = "fetch" /\ local[r].backoff > 0
    /\ semaphore = CONCURRENCY - 1

\* C36: on an interrupt during a build no new batch is issued, the rows in
\* flight run to their end (none is cancelled: each ends skipped, with a
\* card, or failed), and the interrupt goes on to the caller only after the
\* cleanup block has run (image session closed, ledger flushed).
C36_SoftStop ==
    /\ [][interrupted => (batch_start' = batch_start /\ interrupted')]_vars
    /\ [](\A r \in Rows : outcome[r] # "cancelled")
    /\ [](bpc = "raised" =>
            /\ interrupted
            /\ session.st # "open"
            /\ _pending_writes = EmptyBag
            /\ \A r \in Rows : rpc[r] \in {"idle", "done"})

\* C37: when build has processed all batches and returned, every row is in
\* exactly one of three outcomes: skipped as empty (no note, not failed),
\* in the deck with exactly one note (not failed), or failed (no note,
\* counted once in rows_failed); the notes, the failed rows and the skipped
\* rows add up to the number of rows.
SkippedRows == {r \in Rows : outcome[r] = "skipped"}
CardedRows == {r \in Rows : NotesOf(r) # {}}
C37_OneOutcomePerRow ==
    bpc = "returned_true" =>
        /\ \A r \in Rows :
              \/ r \in SkippedRows /\ EmptyWord(r) /\ NotesOf(r) = {} /\ ~raised[r]
              \/ r \notin SkippedRows /\ Cardinality(NotesOf(r)) = 1 /\ ~raised[r]
              \/ r \notin SkippedRows /\ NotesOf(r) = {} /\ raised[r]
        /\ stats.rows_failed = Cardinality(FailedRows)
        /\ Len(failed_words) = stats.rows_failed
        /\ Len(deck) = Cardinality(CardedRows)
        /\ Len(deck) + stats.rows_failed + Cardinality(SkippedRows) = Len(rows)

\* A finished build with one row of each outcome: one note in the deck, one
\* failed row, one row skipped as empty.
C37_Witness ==
    /\ bpc = "returned_true"
    /\ Len(deck) = 1
    /\ stats.rows_failed = 1
    /\ Cardinality(SkippedRows) = 1

\* C38: each row is counted exactly once in progress.  The step in which a
\* row ends (empty skip, card added, row failed) raises _processed_items by
\* exactly 1, so _processed_items never exceeds _total_items and the
\* percentage of builder.py:588 never exceeds 100.
Percentage == (_processed_items * 100) \div _total_items
C38_ProgressOncePerRow ==
    /\ [][\A r \in Rows :
            (rpc[r] \in {"sleep", "fetch"} /\ rpc'[r] = "done" /\ ~interrupted') =>
                _processed_items' = _processed_items + 1]_vars
    /\ [](_processed_items <= _total_items)
    /\ [](_total_items > 0 => Percentage <= 100)

\* C39: a media file that a fetcher accepted and that process_row then
\* marked cached is reported cached by a later is_cached, as long as the
\* file on disk is unchanged: when a row leaves gather without an exception,
\* each of its fetches that succeeded has a ledger entry, and is_cached
\* returns true for its file.
C39_AcceptedStaysCached ==
    [][\A r \in Rows :
          (rpc[r] = "fetch" /\ rpc'[r] = "done" /\ ~interrupted' /\ ~raised'[r]) =>
              \A key \in DOMAIN local[r].tasks :
                  local[r].tasks[key].st = "ok" =>
                      /\ KeyFile(r, key) \in DOMAIN cache'
                      /\ is_cached(CM', media', KeyFile(r, key), DefaultMinSize).ret]_vars

\* C40: in every reachable tracker state the consecutive-success count and
\* the consecutive-failure count are not both nonzero, and neither is
\* negative.
C40_StreaksExclusive ==
    /\ adaptive_stats.consecutive_success >= 0
    /\ adaptive_stats.consecutive_failures >= 0
    /\ adaptive_stats.consecutive_success = 0 \/ adaptive_stats.consecutive_failures = 0

\* Four calls, the last of them the only throttle and the one before it a
\* plain failure: the failure streak stands at two and the success streak
\* at zero.
C40_Witness ==
    /\ calls = 4
    /\ throttles = 1
    /\ lastCall[1] = 429
    /\ adaptive_stats.consecutive_failures = 2
    /\ adaptive_stats.consecutive_success = 0
    /\ adaptive_stats.concurrency_adjustments = 1

====
